---- MODULE Spec2Model ----
(***************************************************************************)
(* kvstor::storage_t : a bounded key-value store with a recency list       *)
(* (std::list m_data, newest first) and an index (std::unordered_map       *)
(* m_index from key to list iterator).                                     *)
(*                                                                         *)
(* Two variants of the class are modelled:                                 *)
(*   "cas" : include/kvstor.h  (push, compare_exchange, dump, restore)     *)
(*   "ttl" : the time-aware header (push stamps end_time, lazy expiry)     *)
(*                                                                         *)
(* A list node is identified by a node id (the address the iterator        *)
(* holds).  Addresses carry no meaning of their own, so when an operation  *)
(* returns the nodes are renumbered by their position in the list (two     *)
(* stores that differ only in the addresses are the same store); an        *)
(* iterator that points at no node of the list becomes 0.                  *)
(* std::optional<value_t> is a sequence of length <= 1.                    *)
(***************************************************************************)
EXTENDS Integers, Sequences, FiniteSets, TLC

\* ---- bounds of the model
MaxKey  == 4
MaxCap  == 3
MaxDump == 3
MaxTime == 2
MaxLife == 2
MaxThreads == 2
MaxFill == 2
MaxBetween == 2

Keys   == 1..MaxKey
Caps   == 0..MaxCap

\* a key that is looked up and erased but never written (the tests' find(max_count)
\* and erase(100))
NeverKey == MaxKey + 1

\* value_t is opaque to the store, which copies values and (compare_with) tests
\* them for equality: two distinguishable values
Values == {1, 2}

\* the readings of steady_clock (it never goes back) and the lifetimes
Lifetimes == 0..MaxLife

\* the time-aware variant, whose items carry an expiry time on top, is explored
\* with one key and one slot less
KeysTtl == 1..(MaxKey - 1)
CapsTtl == 0..(MaxCap - 1)

\* std::optional<value_t>
Nothing   == <<>>
Some(v)   == <<v>>
Optionals == {Nothing} \cup {Some(v) : v \in Values}

\* std::vector<std::pair<key_t, value_t>> of bounded length
Pairs == {<<k, v>> : k \in Keys, v \in Values}
Dumps == UNION {[1..n -> Pairs] : n \in 0..MaxDump}

VARIABLES
    variant,      \* which header the store is an instance of
    m_data,       \* the recency list, front at index 1
    m_index,      \* key -> node id
    m_size,       \* std::atomic<size_t> m_size (cas variant)
    m_max_size,   \* const size_t m_max_size
    m_lifetime,   \* const duration_t m_lifetime (ttl variant)
    clock,        \* the value steady_clock::now() returns
    written,      \* history: the stored keys in the order of their last write, newest first
    pre,          \* history: the store as it was when the last operation began
    op,           \* history: the last completed operation, its arguments and results
    caller,       \* the locals of a caller that makes a fixed sequence of calls
    m_lock,       \* std::mutex m_lock: 0 when free, else the thread that holds it
    thr,          \* per thread: where it is in its call, the call and what it returned
    abs           \* history: the store after the calls that have taken effect so far

vars == <<variant, m_data, m_index, m_size, m_max_size, m_lifetime, clock, written, pre, op,
          caller, m_lock, thr, abs>>

\* what the single-caller operations leave alone
aux == <<caller, m_lock, thr, abs>>

\* ---- sequences and maps
Range(s) == {s[i] : i \in 1..Len(s)}

RemoveKey(s, k) == SelectSeq(s, LAMBDA x : x # k)

\* the history of writes: key k has just been written
Touch(w, k) == <<k>> \o RemoveKey(w, k)

KeysOf(data) == [i \in 1..Len(data) |-> data[i].key]

PairsOf(data) == [i \in 1..Len(data) |-> <<data[i].key, data[i].value>>]

EmptyIndex == [k \in {} |-> 0]

\* m_index.find(key) != m_index.end()
Found(index, key) == key \in DOMAIN index

\* m_index.emplace(key, node): no effect when the key is already there
IndexEmplace(index, key, node) ==
    IF key \in DOMAIN index THEN index
    ELSE [k \in DOMAIN index \cup {key} |-> IF k = key THEN node ELSE index[k]]

\* m_index.erase(key)
IndexErase(index, key) == [k \in DOMAIN index \ {key} |-> index[k]]

\* the node a new list element is allocated at
FreshNode(data) ==
    CHOOSE n \in 1..(Len(data) + 1) :
        /\ \A i \in 1..Len(data) : data[i].node # n
        /\ \A m \in 1..(n - 1) : \E i \in 1..Len(data) : data[i].node = m

\* m_data.erase(iterator)
ListErase(data, node) == SelectSeq(data, LAMBDA e : e.node # node)

\* m_data.pop_back()
PopBack(data) == SubSeq(data, 1, Len(data) - 1)

\* *iterator
Deref(data, node) == CHOOSE e \in Range(data) : e.node = node

Store(data, index, size) == [data |-> data, index |-> index, size |-> size]

\* the position of the node an iterator points at, 0 when it points at none
Position(data, node) ==
    IF \E i \in 1..Len(data) : data[i].node = node
    THEN CHOOSE i \in 1..Len(data) : data[i].node = node
    ELSE 0

\* the same store with the nodes renumbered by position
Renumber(st) ==
    [st EXCEPT !.data = [i \in 1..Len(st.data) |-> [st.data[i] EXCEPT !.node = i]],
               !.index = [k \in DOMAIN st.index |-> Position(st.data, st.index[k])]]

\* the keys of w that the index holds
Stored(w, index) == SelectSeq(w, LAMBDA k : k \in DOMAIN index)

EmptyStore == Store(<<>>, EmptyIndex, 0)

\* ---- include/kvstor.h, private helpers

\* apply_new that overwrites the value of an existing key where it stands
apply_new_in_place(st, key, value, found) ==
    LET item == [node |-> FreshNode(st.data), key |-> key, value |-> value]
    IN  IF ~found
        THEN [st EXCEPT !.data = <<item>> \o st.data,
                        !.index = IndexEmplace(st.index, key, item.node)]
        ELSE [st EXCEPT !.data = [i \in 1..Len(st.data) |->
                                     IF st.data[i].node = st.index[key]
                                     THEN [st.data[i] EXCEPT !.value = value]
                                     ELSE st.data[i]]]

\* apply_new with emplace_back in the place of emplace_front
apply_new_at_back(st, key, value, found) ==
    LET item == [node |-> FreshNode(st.data), key |-> key, value |-> value]
        data == st.data \o <<item>>
    IN  IF ~found
        THEN [st EXCEPT !.data = data,
                        !.index = IndexEmplace(st.index, key, item.node)]
        ELSE [st EXCEPT !.data = ListErase(data, st.index[key]),
                        !.index = [st.index EXCEPT ![key] = item.node]]

\* apply_new that evicts to make room even when the key is already stored
apply_new_evicting(st, key, value, found) ==
    LET full == IF found /\ Len(st.data) > 1 /\ st.data[Len(st.data)].key # key
                THEN [st EXCEPT !.index = IndexErase(st.index, st.data[Len(st.data)].key),
                                !.data = PopBack(st.data)]
                ELSE st
        item == [node |-> FreshNode(full.data), key |-> key, value |-> value]
        data == <<item>> \o full.data
    IN  IF ~found
        THEN [full EXCEPT !.data = data,
                          !.index = IndexEmplace(full.index, key, item.node)]
        ELSE [full EXCEPT !.data = ListErase(data, full.index[key]),
                          !.index = [full.index EXCEPT ![key] = item.node]]

apply_new(st, key, value, found) ==
    LET item == [node |-> FreshNode(st.data), key |-> key, value |-> value]
        data == <<item>> \o st.data
    IN  IF ~found
        THEN [st EXCEPT !.data = data,
                        !.index = IndexEmplace(st.index, key, item.node)]
        ELSE [st EXCEPT !.data = ListErase(data, st.index[key]),
                        !.index = [st.index EXCEPT ![key] = item.node]]

\* fix_size that only refreshes m_size
fix_size_no_pop(st, max_size) == [st EXCEPT !.size = Len(st.data)]

\* fix_size that takes max_size = 0 for "no limit"
fix_size_zero_unlimited(st, max_size) ==
    LET popped == IF max_size > 0 /\ Len(st.data) > max_size
                  THEN [st EXCEPT !.index = IndexErase(st.index, st.data[Len(st.data)].key),
                                  !.data = PopBack(st.data)]
                  ELSE st
    IN  [popped EXCEPT !.size = Len(popped.data)]

\* fix_size that evicts the entry next to the newest one
fix_size_pop_second(st, max_size) ==
    LET victim == IF Len(st.data) >= 2 THEN 2 ELSE Len(st.data)
        popped == IF Len(st.data) > max_size
                  THEN [st EXCEPT !.index = IndexErase(st.index, st.data[victim].key),
                                  !.data = ListErase(st.data, st.data[victim].node)]
                  ELSE st
    IN  [popped EXCEPT !.size = Len(popped.data)]

fix_size(st, max_size) ==
    LET popped == IF Len(st.data) > max_size
                  THEN [st EXCEPT !.index = IndexErase(st.index, st.data[Len(st.data)].key),
                                  !.data = PopBack(st.data)]
                  ELSE st
    IN  [popped EXCEPT !.size = Len(popped.data)]

\* compare_with that takes a missing key for a match
compare_with_absent_matches(st, key, found, expected) ==
    IF ~found THEN <<TRUE, expected>>
    ELSE IF expected # Nothing /\ expected[1] = Deref(st.data, st.index[key]).value
         THEN <<TRUE, expected>>
         ELSE <<FALSE, Some(Deref(st.data, st.index[key]).value)>>

\* compare_with that leaves expected alone when the key is missing
compare_with_stale_expected(st, key, found, expected) ==
    IF ~found \/ expected = Nothing
    THEN IF ~found /\ expected = Nothing THEN <<TRUE, expected>>
         ELSE IF expected # Nothing THEN <<FALSE, expected>>
         ELSE <<FALSE, Some(Deref(st.data, st.index[key]).value)>>
    ELSE IF expected[1] = Deref(st.data, st.index[key]).value THEN <<TRUE, expected>>
         ELSE <<FALSE, Some(Deref(st.data, st.index[key]).value)>>

\* compare_with that fails without writing the stored value into expected
compare_with_no_refresh(st, key, found, expected) ==
    IF ~found \/ expected = Nothing
    THEN IF ~found /\ expected = Nothing THEN <<TRUE, expected>>
         ELSE IF expected # Nothing THEN <<FALSE, Nothing>>
         ELSE <<FALSE, expected>>
    ELSE IF expected[1] = Deref(st.data, st.index[key]).value THEN <<TRUE, expected>>
         ELSE <<FALSE, expected>>

\* compare_with that takes an empty expected for "any value"
compare_with_empty_matches_any(st, key, found, expected) ==
    IF expected = Nothing THEN <<TRUE, expected>>
    ELSE IF ~found THEN <<FALSE, Nothing>>
    ELSE IF expected[1] = Deref(st.data, st.index[key]).value THEN <<TRUE, expected>>
         ELSE <<FALSE, Some(Deref(st.data, st.index[key]).value)>>

\* compare_with that never fails: compare_exchange as a plain push
compare_with_never_fails(st, key, found, expected) == <<TRUE, expected>>

\* compare_with that matches only an entry nobody has written after it: the newest
compare_with_newest_only(st, key, found, expected) ==
    IF ~found \/ expected = Nothing
    THEN IF ~found /\ expected = Nothing THEN <<TRUE, expected>>
         ELSE IF expected # Nothing THEN <<FALSE, Nothing>>
         ELSE <<FALSE, Some(Deref(st.data, st.index[key]).value)>>
    ELSE IF expected[1] = Deref(st.data, st.index[key]).value /\ st.data[1].key = key
         THEN <<TRUE, expected>>
         ELSE <<FALSE, Some(Deref(st.data, st.index[key]).value)>>

\* compare_with that empties expected on a mismatch
compare_with_reset_on_mismatch(st, key, found, expected) ==
    IF ~found \/ expected = Nothing
    THEN IF ~found /\ expected = Nothing THEN <<TRUE, expected>>
         ELSE IF expected # Nothing THEN <<FALSE, Nothing>>
         ELSE <<FALSE, Some(Deref(st.data, st.index[key]).value)>>
    ELSE IF expected[1] = Deref(st.data, st.index[key]).value THEN <<TRUE, expected>>
         ELSE <<FALSE, Nothing>>

\* compare_with returns <<result, expected after the call>>
compare_with(st, key, found, expected) ==
    IF ~found \/ expected = Nothing
    THEN IF ~found /\ expected = Nothing THEN <<TRUE, expected>>
         ELSE IF expected # Nothing THEN <<FALSE, Nothing>>
         ELSE <<FALSE, Some(Deref(st.data, st.index[key]).value)>>
    ELSE IF expected[1] = Deref(st.data, st.index[key]).value THEN <<TRUE, expected>>
         ELSE <<FALSE, Some(Deref(st.data, st.index[key]).value)>>

\* rbegin() + offset .. rend(): the pairs at positions i, i-1, .. 1 are replayed
RECURSIVE replay(_, _, _, _)
replay(st, dump_data, i, max_size) ==
    IF i < 1 THEN st
    ELSE LET key   == dump_data[i][1]
             value == dump_data[i][2]
             found == Found(st.index, key)
         IN  replay(fix_size(apply_new(st, key, value, found), max_size),
                    dump_data, i - 1, max_size)

\* build_from_dump that replays the pairs front to back
build_from_dump_front_first(st, dump_data, max_size) ==
    LET dump_size == Len(dump_data)
        offset    == IF dump_size < max_size THEN 0 ELSE dump_size - max_size
        mirrored  == [i \in 1..dump_size |-> dump_data[dump_size + 1 - i]]
    IN  replay(st, mirrored, dump_size - offset, max_size)

\* build_from_dump that skips the front of the dump instead of its back
build_from_dump_keeps_back(st, dump_data, max_size) ==
    LET dump_size == Len(dump_data)
        offset    == IF dump_size < max_size THEN 0 ELSE dump_size - max_size
    IN  replay(st, SubSeq(dump_data, offset + 1, dump_size), dump_size - offset, max_size)

build_from_dump(st, dump_data, max_size) ==
    LET dump_size == Len(dump_data)
        offset    == IF dump_size < max_size THEN 0 ELSE dump_size - max_size
    IN  replay(st, dump_data, dump_size - offset, max_size)

\* the keys build_from_dump writes, in the order of their last write, newest first
RECURSIVE replayed(_, _, _)
replayed(w, dump_data, i) ==
    IF i < 1 THEN w ELSE replayed(Touch(w, dump_data[i][1]), dump_data, i - 1)

\* the visitor that leaves the values alone
Identity == [v \in Values |-> v]

\* ---- the history variables
NoOp ==
    [name |-> "none", key |-> 0, value |-> 0, expected |-> Nothing,
     expected_out |-> Nothing, result |-> Nothing, ok |-> FALSE, count |-> 0,
     visited |-> <<>>, dump_data |-> <<>>, sweep_now |-> 0, now |-> 0,
     visitor |-> Identity]

Cur == Store(m_data, m_index, m_size)

Snapshot ==
    [data |-> m_data, index |-> m_index, size |-> m_size, clock |-> clock,
     written |-> written, max_size |-> m_max_size]

NoSnapshot ==
    [data |-> <<>>, index |-> EmptyIndex, size |-> 0, clock |-> 0, written |-> <<>>,
     max_size |-> 0]

\* no call is being looked at: the caller has consumed the last result
Idle == op.name = "none"

\* an operation returns at clock reading now: the store becomes st
ReturnAt(st, o, w, now) ==
    /\ Idle
    /\ m_data' = Renumber(st).data
    /\ m_index' = Renumber(st).index
    /\ m_size' = st.size
    /\ written' = Stored(w, st.index)
    /\ pre' = Snapshot
    /\ op' = o
    /\ clock' = now
    /\ UNCHANGED <<variant, m_max_size, m_lifetime>>
    /\ UNCHANGED aux

\* an operation of the cas variant returns (it never reads the clock)
Return(st, o, w) == ReturnAt(st, o, w, clock)

\* ---- include/kvstor.h, constructors
Construct(max_size) ==
    /\ variant = "cas"
    /\ m_max_size = max_size
    /\ m_lifetime = 0
    /\ clock = 0
    /\ m_data = <<>>
    /\ m_index = EmptyIndex
    /\ m_size = 0
    /\ written = <<>>
    /\ pre = NoSnapshot
    /\ op = [NoOp EXCEPT !.name = "construct"]

Restore(dump_data, max_size) ==
    LET st == build_from_dump(EmptyStore, dump_data, max_size)
        dump_size == Len(dump_data)
        kept == IF dump_size < max_size THEN dump_size ELSE max_size
    IN  /\ variant = "cas"
        /\ m_max_size = max_size
        /\ m_lifetime = 0
        /\ clock = 0
        /\ m_data = Renumber(st).data
        /\ m_index = Renumber(st).index
        /\ m_size = st.size
        /\ written = Stored(replayed(<<>>, dump_data, kept), st.index)
        /\ pre = NoSnapshot
        /\ op = [NoOp EXCEPT !.name = "restore", !.dump_data = dump_data]

\* ---- include/kvstor.h, public operations (each runs under m_lock)
push(key, value) ==
    /\ variant = "cas"
    /\ LET found == Found(m_index, key)
           st    == fix_size(apply_new(Cur, key, value, found), m_max_size)
       IN  Return(st, [NoOp EXCEPT !.name = "push", !.key = key, !.value = value],
                  Touch(written, key))

\* the store write of compare_exchange that overwrites a stored value where it stands
exchange_in_place(st, key, desired, found, max_size) ==
    IF ~found
    THEN fix_size(apply_new(st, key, desired, found), max_size)
    ELSE [st EXCEPT !.data = [i \in 1..Len(st.data) |->
                        IF st.data[i].key = key
                        THEN [st.data[i] EXCEPT !.value = desired]
                        ELSE st.data[i]]]

\* compare_exchange after a successful comparison: apply_new, then fix_size
exchange(st, key, desired, found, max_size) ==
    fix_size(apply_new(st, key, desired, found), max_size)

compare_exchange(key, desired, expected) ==
    /\ variant = "cas"
    /\ LET found == Found(m_index, key)
           cmp   == compare_with(Cur, key, found, expected)
           o     == [NoOp EXCEPT !.name = "compare_exchange", !.key = key,
                                 !.value = desired, !.expected = expected,
                                 !.expected_out = cmp[2], !.ok = cmp[1]]
       IN  IF ~cmp[1]
           THEN Return(Cur, o, written)
           ELSE Return(exchange(Cur, key, desired, found, m_max_size),
                       o, Touch(written, key))

find_result(st, key) ==
    IF ~Found(st.index, key) THEN Nothing
    ELSE Some(Deref(st.data, st.index[key]).value)

\* find that counts as a use: the entry found moves to the front
find_touching(key) ==
    /\ variant = "cas"
    /\ LET found == Found(m_index, key)
           moved == IF found
                    THEN [Cur EXCEPT !.data = <<Deref(m_data, m_index[key])>>
                                                  \o ListErase(m_data, m_index[key])]
                    ELSE Cur
       IN  Return(moved, [NoOp EXCEPT !.name = "find", !.key = key,
                                      !.result = find_result(Cur, key)], written)

find(key) ==
    /\ variant = "cas"
    /\ Return(Cur, [NoOp EXCEPT !.name = "find", !.key = key,
                                !.result = find_result(Cur, key)], written)

first_result(st) ==
    IF st.size = 0 THEN Nothing ELSE Some(st.data[1].value)

first ==
    /\ variant = "cas"
    /\ Return(Cur, [NoOp EXCEPT !.name = "first", !.result = first_result(Cur)], written)

\* last that returns the newest value
last_result_newest(st) ==
    IF st.size = 0 THEN Nothing ELSE Some(st.data[1].value)

last_result(st) ==
    IF st.size = 0 THEN Nothing ELSE Some(st.data[Len(st.data)].value)

last ==
    /\ variant = "cas"
    /\ Return(Cur, [NoOp EXCEPT !.name = "last", !.result = last_result(Cur)], written)

\* the visitors of the mutating overload, value = f[value]: the visitor that
\* leaves the values alone, the ones that store one fixed value, and the one
\* that steps every value to the next
Visitors ==
    {[v \in Values |-> v]} \cup {[v \in Values |-> w] : w \in Values}
        \cup {[v \in Values |-> IF v = 1 THEN 2 ELSE 1]}

\* map that calls the visitor twice on every entry
map_visit_twice(st, f) ==
    [st EXCEPT !.data = [i \in 1..Len(st.data) |->
                            [st.data[i] EXCEPT !.value = f[f[st.data[i].value]]]]]

map_visit(st, f) ==
    [st EXCEPT !.data = [i \in 1..Len(st.data) |->
                            [st.data[i] EXCEPT !.value = f[st.data[i].value]]]]

map(f) ==
    /\ variant = "cas"
    /\ Return(map_visit(Cur, f),
              [NoOp EXCEPT !.name = "map", !.visited = PairsOf(m_data), !.visitor = f],
              written)

map_const ==
    /\ variant = "cas"
    /\ Return(Cur, [NoOp EXCEPT !.name = "map_const", !.visited = PairsOf(m_data)],
              written)

size ==
    /\ variant = "cas"
    /\ Return(Cur, [NoOp EXCEPT !.name = "size", !.count = m_size], written)

empty ==
    /\ variant = "cas"
    /\ Return(Cur, [NoOp EXCEPT !.name = "empty", !.ok = (m_size = 0)], written)

\* erase that finds nothing to do for the newest entry
erase_key_not_front(st, key) ==
    IF Found(st.index, key) /\ st.data[1].key # key
    THEN LET data == ListErase(st.data, st.index[key])
         IN  Store(data, IndexErase(st.index, key), Len(data))
    ELSE st

\* erase that unlinks the list node and leaves the key in the index
erase_key_keeps_index(st, key) ==
    IF Found(st.index, key)
    THEN LET data == ListErase(st.data, st.index[key])
         IN  Store(data, st.index, Len(data))
    ELSE st

\* erase that fills the hole with the tail entry
erase_key_swap_last(st, key) ==
    IF Found(st.index, key)
    THEN LET n    == Len(st.data)
             at   == Position(st.data, st.index[key])
             data == [i \in 1..(n - 1) |-> IF i = at THEN st.data[n] ELSE st.data[i]]
         IN  Store(data, IndexErase(st.index, key), Len(data))
    ELSE st

erase_key(st, key) ==
    IF Found(st.index, key)
    THEN LET data == ListErase(st.data, st.index[key])
         IN  Store(data, IndexErase(st.index, key), Len(data))
    ELSE st

erase(key) ==
    /\ variant = "cas"
    /\ Return(erase_key(Cur, key), [NoOp EXCEPT !.name = "erase", !.key = key], written)

\* clear that removes the newest entry only
clear_front_only ==
    /\ variant = "cas"
    /\ Return(IF m_data = <<>> THEN Cur
              ELSE erase_key(Cur, m_data[1].key), [NoOp EXCEPT !.name = "clear"], written)

clear ==
    /\ variant = "cas"
    /\ Return(EmptyStore, [NoOp EXCEPT !.name = "clear"], written)

\* dump that collects the pairs oldest first
dump_oldest_first ==
    /\ variant = "cas"
    /\ Return(Cur, [NoOp EXCEPT !.name = "dump",
                                !.visited = [i \in 1..Len(m_data) |->
                                                PairsOf(m_data)[Len(m_data) + 1 - i]]],
              written)

\* dump_data.reserve(size()); map(do_dump); return dump_data
dump ==
    /\ variant = "cas"
    /\ Return(Cur, [NoOp EXCEPT !.name = "dump", !.visited = PairsOf(m_data)], written)

\* storage_t other{ dump_data, max_size } with the dump just taken: from here on
\* the model follows the new store; pre keeps the store that was dumped
restore_dump(max_size) ==
    /\ variant = "cas"
    /\ op.name = "dump"
    /\ LET dump_data == op.visited
           dump_size == Len(dump_data)
           kept == IF dump_size < max_size THEN dump_size ELSE max_size
           st   == build_from_dump(EmptyStore, dump_data, max_size)
       IN  /\ m_max_size' = max_size
           /\ m_data' = Renumber(st).data
           /\ m_index' = Renumber(st).index
           /\ m_size' = st.size
           /\ written' = Stored(replayed(<<>>, dump_data, kept), st.index)
           /\ pre' = Snapshot
           /\ op' = [NoOp EXCEPT !.name = "restore_dump", !.dump_data = dump_data]
    /\ UNCHANGED <<variant, m_lifetime, clock>>
    /\ UNCHANGED aux

\* ---- the time-aware header: private helper
RECURSIVE clear_outdated(_, _)
clear_outdated(st, now) ==
    IF st.data = <<>> THEN st
    ELSE LET last_item == st.data[Len(st.data)]
         IN  IF last_item.end_time > now THEN st
             ELSE clear_outdated([st EXCEPT !.index = IndexErase(st.index, last_item.key),
                                            !.data = PopBack(st.data)], now)

\* ---- the time-aware header: constructor
Construct_ttl(max_size, lifetime) ==
    /\ variant = "ttl"
    /\ m_max_size = max_size
    /\ m_lifetime = lifetime
    /\ clock = 0
    /\ m_data = <<>>
    /\ m_index = EmptyIndex
    /\ m_size = 0
    /\ written = <<>>
    /\ pre = NoSnapshot
    /\ op = [NoOp EXCEPT !.name = "construct"]

\* ---- the time-aware header: public operations (each runs under m_lock).
\* The first clock reading of an operation is clock; a later reading of the same
\* operation is any reading from clock on.
\* push that restamps an existing entry where it stands in the list
push_store_ttl_in_place(st, key, value, sweep_now, now, lifetime, max_size) ==
    LET swept == clear_outdated(st, sweep_now)
        item  == [node |-> FreshNode(swept.data), key |-> key, value |-> value,
                  end_time |-> now + lifetime]
        found == Found(swept.index, key)
        placed == IF ~found
                  THEN [swept EXCEPT !.data = <<item>> \o swept.data,
                                     !.index = IndexEmplace(swept.index, key, item.node)]
                  ELSE [swept EXCEPT !.data = [i \in 1..Len(swept.data) |->
                                        IF swept.data[i].key = key
                                        THEN [item EXCEPT !.node = swept.data[i].node]
                                        ELSE swept.data[i]]]
    IN  IF Len(placed.data) > max_size
        THEN [placed EXCEPT !.index = IndexErase(placed.index,
                                                 placed.data[Len(placed.data)].key),
                            !.data = PopBack(placed.data)]
        ELSE placed

\* push that decides on the eviction by the size the list had before the sweep
push_store_ttl_full_before_sweep(st, key, value, sweep_now, now, lifetime, max_size) ==
    LET swept == clear_outdated(st, sweep_now)
        item  == [node |-> FreshNode(swept.data), key |-> key, value |-> value,
                  end_time |-> now + lifetime]
        data  == <<item>> \o swept.data
        found == Found(swept.index, key)
        placed == IF ~found
                  THEN [swept EXCEPT !.data = data,
                                     !.index = IndexEmplace(swept.index, key, item.node)]
                  ELSE [swept EXCEPT !.data = ListErase(data, swept.index[key]),
                                     !.index = [swept.index EXCEPT ![key] = item.node]]
    IN  IF Len(placed.data) > max_size \/ (~found /\ Len(st.data) + 1 > max_size)
        THEN [placed EXCEPT !.index = IndexErase(placed.index,
                                                 placed.data[Len(placed.data)].key),
                            !.data = PopBack(placed.data)]
        ELSE placed

\* push that leaves an existing key the expiry time of its first insertion
push_store_ttl_first_stamp(st, key, value, sweep_now, now, lifetime, max_size) ==
    LET swept == clear_outdated(st, sweep_now)
        found == Found(swept.index, key)
        item  == [node |-> FreshNode(swept.data), key |-> key, value |-> value,
                  end_time |-> IF found THEN Deref(swept.data, swept.index[key]).end_time
                               ELSE now + lifetime]
        data  == <<item>> \o swept.data
        placed == IF ~found
                  THEN [swept EXCEPT !.data = data,
                                     !.index = IndexEmplace(swept.index, key, item.node)]
                  ELSE [swept EXCEPT !.data = ListErase(data, swept.index[key]),
                                     !.index = [swept.index EXCEPT ![key] = item.node]]
    IN  IF Len(placed.data) > max_size
        THEN [placed EXCEPT !.index = IndexErase(placed.index,
                                                 placed.data[Len(placed.data)].key),
                            !.data = PopBack(placed.data)]
        ELSE placed

push_store_ttl(st, key, value, sweep_now, now, lifetime, max_size) ==
    LET swept == clear_outdated(st, sweep_now)
        item  == [node |-> FreshNode(swept.data), key |-> key, value |-> value,
                  end_time |-> now + lifetime]
        data  == <<item>> \o swept.data
        found == Found(swept.index, key)
        placed == IF ~found
                  THEN [swept EXCEPT !.data = data,
                                     !.index = IndexEmplace(swept.index, key, item.node)]
                  ELSE [swept EXCEPT !.data = ListErase(data, swept.index[key]),
                                     !.index = [swept.index EXCEPT ![key] = item.node]]
    IN  IF Len(placed.data) > max_size
        THEN [placed EXCEPT !.index = IndexErase(placed.index,
                                                 placed.data[Len(placed.data)].key),
                            !.data = PopBack(placed.data)]
        ELSE placed

push_ttl(key, value) ==
    /\ variant = "ttl"
    /\ \E now \in clock..MaxTime :
           ReturnAt(push_store_ttl(Cur, key, value, clock, now, m_lifetime, m_max_size),
                    [NoOp EXCEPT !.name = "push", !.key = key, !.value = value,
                                 !.sweep_now = clock, !.now = now],
                    Touch(Stored(written, clear_outdated(Cur, clock).index), key), now)

\* find that still returns an entry at the very reading of its expiry
find_result_ttl_inclusive(st, key, now) ==
    IF ~Found(st.index, key) THEN Nothing
    ELSE IF Deref(st.data, st.index[key]).end_time < now THEN Nothing
    ELSE Some(Deref(st.data, st.index[key]).value)

find_result_ttl(st, key, now) ==
    IF ~Found(st.index, key) THEN Nothing
    ELSE IF Deref(st.data, st.index[key]).end_time <= now THEN Nothing
    ELSE Some(Deref(st.data, st.index[key]).value)

find_ttl(key) ==
    /\ variant = "ttl"
    /\ Return(Cur, [NoOp EXCEPT !.name = "find", !.key = key, !.now = clock,
                                !.result = find_result_ttl(Cur, key, clock)], written)

first_result_ttl(st) ==
    IF st.data = <<>> THEN Nothing ELSE Some(st.data[1].value)

\* first that sweeps the expired entries before it looks at the front
first_ttl_sweeping ==
    /\ variant = "ttl"
    /\ LET swept == clear_outdated(Cur, clock)
       IN  Return(swept, [NoOp EXCEPT !.name = "first", !.result = first_result_ttl(swept)],
                  written)

first_ttl ==
    /\ variant = "ttl"
    /\ Return(Cur, [NoOp EXCEPT !.name = "first", !.result = first_result_ttl(Cur)],
              written)

\* last() after its sweep, at the reading now of its check
last_result_ttl(swept, now) ==
    IF swept.data = <<>> THEN Nothing
    ELSE IF swept.data[Len(swept.data)].end_time < now THEN Nothing
    ELSE Some(swept.data[Len(swept.data)].value)

last_ttl ==
    /\ variant = "ttl"
    /\ LET swept == clear_outdated(Cur, clock)
       IN  \E now \in clock..MaxTime :
               /\ swept.data = <<>> => now = clock
               /\ ReturnAt(swept, [NoOp EXCEPT !.name = "last", !.sweep_now = clock,
                                               !.now = now,
                                               !.result = last_result_ttl(swept, now)],
                           written, now)

\* the number of items the traversal passes to the visitor
RECURSIVE visit_count(_, _, _)
visit_count(data, i, now) ==
    IF i > Len(data) THEN Len(data)
    ELSE IF data[i].end_time < now THEN i - 1
    ELSE visit_count(data, i + 1, now)

visited_ttl(data, now) ==
    [i \in 1..visit_count(data, 1, now) |->
        <<data[i].key, data[i].value, data[i].end_time - now>>]

map_visit_ttl(st, f, now) ==
    [st EXCEPT !.data = [i \in 1..Len(st.data) |->
                            IF i <= visit_count(st.data, 1, now)
                            THEN [st.data[i] EXCEPT !.value = f[st.data[i].value]]
                            ELSE st.data[i]]]

map_ttl(f) ==
    /\ variant = "ttl"
    /\ Return(map_visit_ttl(Cur, f, clock),
              [NoOp EXCEPT !.name = "map", !.now = clock, !.visitor = f,
                           !.visited = visited_ttl(m_data, clock)], written)

map_const_ttl ==
    /\ variant = "ttl"
    /\ Return(Cur, [NoOp EXCEPT !.name = "map_const", !.now = clock,
                                !.visited = visited_ttl(m_data, clock)], written)

\* size that counts what is in the list without sweeping it
size_ttl_no_sweep ==
    /\ variant = "ttl"
    /\ Return(Cur, [NoOp EXCEPT !.name = "size", !.sweep_now = clock, !.now = clock,
                                !.count = Len(m_data)], written)

size_ttl ==
    /\ variant = "ttl"
    /\ LET swept == clear_outdated(Cur, clock)
       IN  Return(swept, [NoOp EXCEPT !.name = "size", !.sweep_now = clock, !.now = clock,
                                      !.count = Len(swept.data)], written)

empty_ttl ==
    /\ variant = "ttl"
    /\ LET swept == clear_outdated(Cur, clock)
       IN  Return(swept, [NoOp EXCEPT !.name = "empty", !.sweep_now = clock, !.now = clock,
                                      !.ok = (swept.data = <<>>)], written)

erase_key_ttl(st, key, now) ==
    clear_outdated(IF Found(st.index, key)
                   THEN [st EXCEPT !.data = ListErase(st.data, st.index[key]),
                                   !.index = IndexErase(st.index, key)]
                   ELSE st, now)

erase_ttl(key) ==
    /\ variant = "ttl"
    /\ Return(erase_key_ttl(Cur, key, clock),
              [NoOp EXCEPT !.name = "erase", !.key = key, !.sweep_now = clock,
                           !.now = clock], written)

clear_ttl ==
    /\ variant = "ttl"
    /\ Return(EmptyStore, [NoOp EXCEPT !.name = "clear"], written)

\* steady_clock moves on between two calls
Tick ==
    /\ variant = "ttl"
    /\ Idle
    /\ clock < MaxTime
    /\ clock' = clock + 1
    /\ UNCHANGED <<variant, m_data, m_index, m_size, m_max_size, m_lifetime, written, pre, op>>
    /\ UNCHANGED aux

\* the caller is done with the result of the last call
Forget ==
    /\ ~Idle
    /\ op' = NoOp
    /\ pre' = NoSnapshot
    /\ UNCHANGED <<variant, m_data, m_index, m_size, m_max_size, m_lifetime, clock, written>>
    /\ UNCHANGED aux

\* a caller that has not called yet
NoCaller ==
    [pc |-> 0, key |-> 0, v |-> 0, desired |-> 0, expected |-> Nothing,
     oks |-> <<>>, outs |-> <<>>]

Constructed ==
    \/ \E max_size \in Caps : Construct(max_size)
    \/ \E max_size \in Caps, dump_data \in Dumps : Restore(dump_data, max_size)
    \/ \E max_size \in CapsTtl, lifetime \in Lifetimes : Construct_ttl(max_size, lifetime)

NoCall == [name |-> "none", key |-> 0, value |-> 0, expected |-> Nothing, f |-> Identity]

NoOut ==
    [result |-> Nothing, ok |-> FALSE, expected_out |-> Nothing, count |-> 0,
     visited |-> <<>>]

\* a thread outside every call; todo holds the keys it has still to push
IdleThread ==
    [pc |-> "idle", call |-> NoCall, out |-> NoOut, lin |-> NoOut, todo |-> <<>>]

Threads == 1..MaxThreads

Init ==
    /\ Constructed
    /\ caller = NoCaller
    /\ m_lock = 0
    /\ thr = [t \in Threads |-> IdleThread]
    /\ abs = EmptyStore

Next ==
    \/ \E key \in Keys, value \in Values : push(key, value)
    \/ \E key \in Keys, desired \in Values, expected \in Optionals :
           compare_exchange(key, desired, expected)
    \/ \E key \in Keys \cup {NeverKey} : find(key)
    \/ first
    \/ last
    \/ \E f \in Visitors : map(f)
    \/ map_const
    \/ size
    \/ empty
    \/ \E key \in Keys \cup {NeverKey} : erase(key)
    \/ clear
    \/ dump
    \/ \E max_size \in Caps : restore_dump(max_size)
    \/ \E key \in KeysTtl, value \in Values : push_ttl(key, value)
    \/ \E key \in KeysTtl \cup {NeverKey} : find_ttl(key)
    \/ first_ttl
    \/ last_ttl
    \/ \E f \in Visitors : map_ttl(f)
    \/ map_const_ttl
    \/ size_ttl
    \/ empty_ttl
    \/ \E key \in KeysTtl \cup {NeverKey} : erase_ttl(key)
    \/ clear_ttl
    \/ Tick
    \/ Forget

Spec == Init /\ [][Next]_vars

\* ---- README.md, "compare_exchange" example and the test "kvstor::compare_exchange":
\* one caller looks a key up, finds nothing, and makes three compare_exchange
\* calls on it; between two calls it takes the result into its locals
Consume(c) ==
    /\ ~Idle
    /\ op' = NoOp
    /\ pre' = NoSnapshot
    /\ caller' = c
    /\ UNCHANGED <<variant, m_data, m_index, m_size, m_max_size, m_lifetime, clock, written>>
    /\ UNCHANGED <<m_lock, thr, abs>>

TakeOutcome ==
    [caller EXCEPT !.pc = @ + 1, !.expected = op.expected_out,
                   !.oks = Append(@, op.ok), !.outs = Append(@, op.expected_out)]

\* the store is there: the caller starts
CasSeqStart ==
    /\ caller.pc = 0
    /\ op.name \in {"construct", "restore"}
    /\ Consume([caller EXCEPT !.pc = 1])

\* auto expected = stor.find(key)
CasSeqLookup ==
    /\ caller.pc = 1
    /\ \E key \in Keys : find(key)

CasSeqTakeLookup ==
    /\ caller.pc = 1
    /\ op.name = "find"
    /\ op.result = Nothing
    /\ Consume([caller EXCEPT !.pc = 2, !.key = op.key, !.expected = op.result])

\* stor.compare_exchange(key, v, expected), expected still empty
CasSeqFirst ==
    /\ caller.pc = 2
    /\ \E v \in Values : compare_exchange(caller.key, v, caller.expected)

CasSeqTakeFirst ==
    /\ caller.pc = 2
    /\ op.name = "compare_exchange"
    /\ Consume([TakeOutcome EXCEPT !.v = op.value])

\* the same expected, a different desired value
CasSeqSecond ==
    /\ caller.pc = 3
    /\ \E desired \in Values \ {caller.v} :
          compare_exchange(caller.key, desired, caller.expected)

CasSeqTakeSecond ==
    /\ caller.pc = 3
    /\ op.name = "compare_exchange"
    /\ Consume(TakeOutcome)

\* expected = v, a new desired value
CasSeqThird ==
    /\ caller.pc = 4
    /\ \E desired \in Values : compare_exchange(caller.key, desired, Some(caller.v))

CasSeqTakeThird ==
    /\ caller.pc = 4
    /\ op.name = "compare_exchange"
    /\ Consume([TakeOutcome EXCEPT !.desired = op.value])

\* what the key holds in the end
CasSeqCheck ==
    /\ caller.pc = 5
    /\ find(caller.key)

InitCasSeq ==
    /\ Init
    /\ variant = "cas"

NextCasSeq ==
    \/ CasSeqStart
    \/ CasSeqLookup
    \/ CasSeqTakeLookup
    \/ CasSeqFirst
    \/ CasSeqTakeFirst
    \/ CasSeqSecond
    \/ CasSeqTakeSecond
    \/ CasSeqThird
    \/ CasSeqTakeThird
    \/ CasSeqCheck

SpecCasSeq == InitCasSeq /\ [][NextCasSeq]_vars

\* ---- a caller that retries a failed compare_exchange at once, with the expected
\* the failed call has refreshed (README: "the caller can retry")
RetryFirst ==
    /\ caller.pc = 1
    /\ \E key \in Keys, d \in Values, expected \in Optionals :
          compare_exchange(key, d, expected)

RetryTakeFirst ==
    /\ caller.pc = 1
    /\ op.name = "compare_exchange"
    /\ Consume([TakeOutcome EXCEPT !.key = op.key, !.v = op.value])

\* the first call has failed: the same key, the refreshed expected, any desired value
RetrySecond ==
    /\ caller.pc = 2
    /\ caller.oks = <<FALSE>>
    /\ \E d2 \in Values : compare_exchange(caller.key, d2, caller.expected)

RetryTakeSecond ==
    /\ caller.pc = 2
    /\ op.name = "compare_exchange"
    /\ Consume([TakeOutcome EXCEPT !.desired = op.value])

NextRetry ==
    \/ CasSeqStart
    \/ RetryFirst
    \/ RetryTakeFirst
    \/ RetrySecond
    \/ RetryTakeSecond

SpecRetry == InitCasSeq /\ [][NextRetry]_vars

\* ---- a caller of the time-aware header that fills the store, lets time pass and
\* then asks first(), find(key of the front entry) and size(), one after the other
FillPush ==
    /\ caller.pc = 0
    /\ \E key \in KeysTtl, value \in Values : push_ttl(key, value)

FillForget ==
    /\ caller.pc = 0
    /\ op.name \in {"construct", "push"}
    /\ Forget

\* the clock moves on between two calls
Wait ==
    /\ caller.pc < 3
    /\ Tick

AskFirst ==
    /\ caller.pc = 0
    /\ first_ttl

\* the caller knows the key it pushed last
TakeFirst ==
    /\ caller.pc = 0
    /\ op.name = "first"
    /\ Consume([caller EXCEPT !.pc = 1, !.expected = op.result,
                              !.key = IF m_data = <<>> THEN 0 ELSE m_data[1].key])

AskFind ==
    /\ caller.pc = 1
    /\ caller.key \in KeysTtl
    /\ find_ttl(caller.key)

TakeFind ==
    /\ caller.pc = 1
    /\ op.name = "find"
    /\ Consume([caller EXCEPT !.pc = 2, !.outs = Append(@, op.result)])

AskSize ==
    /\ caller.pc = 2
    /\ size_ttl

TakeSize ==
    /\ caller.pc = 2
    /\ op.name = "size"
    /\ Consume([caller EXCEPT !.pc = 3, !.v = op.count])

InitFront ==
    /\ Init
    /\ variant = "ttl"

NextFront ==
    \/ FillPush
    \/ FillForget
    \/ Wait
    \/ AskFirst
    \/ TakeFirst
    \/ AskFind
    \/ TakeFind
    \/ AskSize
    \/ TakeSize

SpecFront == InitFront /\ [][NextFront]_vars

\* ---- several threads call one store.  A thread in a call stands at one of
\* pc = "lock"    blocked in the constructor of std::lock_guard,
\*      "body"    before the statements that read or write m_data and m_index
\*                (or, in size() and empty() of the cas header, before the load
\*                of m_size),
\*      "store"   before the statement that assigns m_size,
\*      "unlock"  before the return, the destructor of the guard included.
\* The statements at "body" run under the lock or touch m_size alone, so no other
\* thread can tell them apart from one step.  The arguments of a call are not
\* read before the lock is taken, so they are chosen when it is taken.
ConcKeys == 1..(MaxKey - 2)

ConcCaps == 0..(MaxCap - 2)

ConcLifetime == MaxLife - 1

\* find that does without the lock
takes_lock_but_find(v, name) ==
    ~(v = "cas" /\ name \in {"size", "empty"}) /\ name # "find"

\* dump that does without the lock
takes_lock_but_dump(v, name) ==
    ~(v = "cas" /\ name \in {"size", "empty"}) /\ name # "dump"

\* does the operation begin with const std::lock_guard guard{ m_lock }
takes_lock(v, name) ==
    ~(v = "cas" /\ name \in {"size", "empty"})

\* does the call reach a statement that assigns m_size
stores_size(c, st) ==
    \/ c.name \in {"push", "clear"}
    \/ c.name = "compare_exchange"
          /\ compare_with(st, c.key, Found(st.index, c.key), c.expected)[1]
    \/ c.name = "erase" /\ Found(st.index, c.key)

\* the call c run alone on the store st of the cas header: the store it leaves
\* and what it returns
Effect(c, st, max_size) ==
    LET found == Found(st.index, c.key)
        cmp   == compare_with(st, c.key, found, c.expected)
    IN  CASE c.name = "push" ->
                 [st |-> fix_size(apply_new(st, c.key, c.value, found), max_size),
                  out |-> NoOut]
          [] c.name = "compare_exchange" ->
                 [st |-> IF cmp[1]
                         THEN exchange(st, c.key, c.value, found, max_size)
                         ELSE st,
                  out |-> [NoOut EXCEPT !.ok = cmp[1], !.expected_out = cmp[2]]]
          [] c.name = "find" ->
                 [st |-> st, out |-> [NoOut EXCEPT !.result = find_result(st, c.key)]]
          [] c.name = "first" ->
                 [st |-> st, out |-> [NoOut EXCEPT !.result = first_result(st)]]
          [] c.name = "last" ->
                 [st |-> st, out |-> [NoOut EXCEPT !.result = last_result(st)]]
          [] c.name = "map" ->
                 [st |-> map_visit(st, c.f),
                  out |-> [NoOut EXCEPT !.visited = PairsOf(st.data)]]
          [] c.name \in {"map_const", "dump"} ->
                 [st |-> st, out |-> [NoOut EXCEPT !.visited = PairsOf(st.data)]]
          [] c.name = "size" ->
                 [st |-> st, out |-> [NoOut EXCEPT !.count = st.size]]
          [] c.name = "empty" ->
                 [st |-> st, out |-> [NoOut EXCEPT !.ok = (st.size = 0)]]
          [] c.name = "erase" ->
                 [st |-> erase_key(st, c.key), out |-> NoOut]
          [] c.name = "clear" ->
                 [st |-> EmptyStore, out |-> NoOut]

\* the same for the time-aware header; now is the first clock reading of the
\* call, later the second one where there is one (push, last)
Effect_ttl(c, st, now, later, lifetime, max_size) ==
    LET swept == clear_outdated(st, now)
    IN  CASE c.name = "push" ->
                 [st |-> push_store_ttl(st, c.key, c.value, now, later, lifetime, max_size),
                  out |-> NoOut]
          [] c.name = "find" ->
                 [st |-> st,
                  out |-> [NoOut EXCEPT !.result = find_result_ttl(st, c.key, now)]]
          [] c.name = "first" ->
                 [st |-> st, out |-> [NoOut EXCEPT !.result = first_result_ttl(st)]]
          [] c.name = "last" ->
                 [st |-> swept,
                  out |-> [NoOut EXCEPT !.result = last_result_ttl(swept, later)]]
          [] c.name = "map" ->
                 [st |-> map_visit_ttl(st, c.f, now),
                  out |-> [NoOut EXCEPT !.visited = visited_ttl(st.data, now)]]
          [] c.name = "map_const" ->
                 [st |-> st, out |-> [NoOut EXCEPT !.visited = visited_ttl(st.data, now)]]
          [] c.name = "size" ->
                 [st |-> swept, out |-> [NoOut EXCEPT !.count = Len(swept.data)]]
          [] c.name = "empty" ->
                 [st |-> swept, out |-> [NoOut EXCEPT !.ok = (swept.data = <<>>)]]
          [] c.name = "erase" ->
                 [st |-> erase_key_ttl(st, c.key, now), out |-> NoOut]
          [] c.name = "clear" ->
                 [st |-> EmptyStore, out |-> NoOut]

\* push and compare_exchange that count the new entry before the eviction
critical_section_counting(c, st, max_size) ==
    IF c.name \in {"push", "compare_exchange"} /\ stores_size(c, st)
    THEN [Effect(c, st, max_size).st EXCEPT
              !.size = Len(apply_new(st, c.key, c.value, Found(st.index, c.key)).data)]
    ELSE [Effect(c, st, max_size).st EXCEPT !.size = st.size]

\* the store of the cas header as the statements before the assignment of m_size
\* leave it: m_data and m_index are changed, m_size is not
critical_section(c, st, max_size) ==
    [Effect(c, st, max_size).st EXCEPT !.size = st.size]

\* the calls a thread can make
Calls(v) ==
    {[NoCall EXCEPT !.name = "push", !.key = key, !.value = value] :
         key \in ConcKeys, value \in Values}
    \cup {[NoCall EXCEPT !.name = name, !.key = key] :
         name \in {"find", "erase"}, key \in ConcKeys}
    \cup {[NoCall EXCEPT !.name = name] :
         name \in {"first", "last", "map_const", "size", "empty", "clear"}}
    \cup {[NoCall EXCEPT !.name = "map", !.f = f] : f \in Visitors}
    \cup IF v = "cas"
         THEN {[NoCall EXCEPT !.name = "compare_exchange", !.key = key, !.value = desired,
                              !.expected = expected] :
                   key \in ConcKeys, desired \in Values, expected \in Optionals}
              \cup {[NoCall EXCEPT !.name = "dump"]}
         ELSE {}

constant_in_calls == <<variant, m_max_size, m_lifetime, written, pre, op, caller>>

\* a thread enters an operation that takes the lock and blocks on it
Call(t) ==
    /\ thr[t].pc = "idle"
    /\ thr' = [thr EXCEPT ![t].pc = "lock"]
    /\ UNCHANGED <<m_data, m_index, m_size, clock, m_lock, abs>>
    /\ UNCHANGED constant_in_calls

\* const std::lock_guard guard{ m_lock } returns
Acquire(t, c, rest) ==
    /\ thr[t].pc = "lock"
    /\ takes_lock(variant, c.name)
    /\ m_lock = 0
    /\ m_lock' = t
    /\ thr' = [thr EXCEPT ![t] = [IdleThread EXCEPT !.pc = "body", !.call = c,
                                                    !.todo = rest]]
    /\ UNCHANGED <<m_data, m_index, m_size, clock, abs>>
    /\ UNCHANGED constant_in_calls

\* a thread enters an operation that takes no lock
Load(t, c) ==
    /\ thr[t].pc = "idle"
    /\ ~takes_lock(variant, c.name)
    /\ thr' = [thr EXCEPT ![t] = [IdleThread EXCEPT !.pc = "body", !.call = c,
                                                    !.todo = thr[t].todo]]
    /\ UNCHANGED <<m_data, m_index, m_size, clock, m_lock, abs>>
    /\ UNCHANGED constant_in_calls

\* the statements of the operation up to the assignment of m_size or the return
Body(t) ==
    /\ thr[t].pc = "body"
    /\ LET c == thr[t].call
       IN  IF variant = "cas"
           THEN LET st    == critical_section(c, Cur, m_max_size)
                    sized == stores_size(c, Cur)
                    e     == Effect(c, abs, m_max_size)
                IN  /\ m_data' = Renumber(st).data
                    /\ m_index' = Renumber(st).index
                    /\ m_size' = st.size
                    /\ clock' = clock
                    /\ abs' = IF sized THEN abs ELSE Renumber(e.st)
                    /\ thr' = [thr EXCEPT ![t].pc = IF sized THEN "store" ELSE "unlock",
                                          ![t].out = Effect(c, Cur, m_max_size).out,
                                          ![t].lin = IF sized THEN NoOut ELSE e.out]
           ELSE \E later \in clock..MaxTime :
                    LET done == Effect_ttl(c, Cur, clock, later, m_lifetime, m_max_size)
                        e    == Effect_ttl(c, abs, clock, later, m_lifetime, m_max_size)
                    IN  /\ (c.name = "push"
                               \/ (c.name = "last" /\ clear_outdated(Cur, clock).data # <<>>))
                              \/ later = clock
                        /\ m_data' = Renumber(done.st).data
                        /\ m_index' = Renumber(done.st).index
                        /\ m_size' = done.st.size
                        /\ clock' = later
                        /\ abs' = Renumber(e.st)
                        /\ thr' = [thr EXCEPT ![t].pc = "unlock", ![t].out = done.out,
                                              ![t].lin = e.out]
    /\ UNCHANGED m_lock
    /\ UNCHANGED constant_in_calls

\* m_size = m_data.size() (m_size = 0 in clear); from here on the call has taken
\* effect for every reader of m_size
StoreSize(t) ==
    /\ thr[t].pc = "store"
    /\ m_size' = Len(m_data)
    /\ LET e == Effect(thr[t].call, abs, m_max_size)
       IN  /\ abs' = Renumber(e.st)
           /\ thr' = [thr EXCEPT ![t].pc = "unlock", ![t].lin = e.out]
    /\ UNCHANGED <<m_data, m_index, clock, m_lock>>
    /\ UNCHANGED constant_in_calls

\* an operation that returns without releasing m_lock
Release_keeping_lock(t) ==
    /\ thr[t].pc = "unlock"
    /\ thr' = [thr EXCEPT ![t] = [IdleThread EXCEPT !.todo = thr[t].todo]]
    /\ UNCHANGED <<m_data, m_index, m_size, clock, m_lock, abs>>
    /\ UNCHANGED constant_in_calls

\* the operation returns; the guard, if there is one, releases m_lock
Release(t) ==
    /\ thr[t].pc = "unlock"
    /\ m_lock' = IF m_lock = t THEN 0 ELSE m_lock
    /\ thr' = [thr EXCEPT ![t] = [IdleThread EXCEPT !.todo = thr[t].todo]]
    /\ UNCHANGED <<m_data, m_index, m_size, clock, abs>>
    /\ UNCHANGED constant_in_calls

\* steady_clock moves on, wherever the threads are
ClockMoves ==
    /\ variant = "ttl"
    /\ clock < MaxTime
    /\ clock' = clock + 1
    /\ UNCHANGED <<m_data, m_index, m_size, m_lock, thr, abs>>
    /\ UNCHANGED constant_in_calls

InitConc ==
    /\ \/ \E max_size \in ConcCaps : Construct(max_size)
       \/ \E max_size \in ConcCaps : Construct_ttl(max_size, ConcLifetime)
    /\ caller = NoCaller
    /\ m_lock = 0
    /\ thr = [t \in Threads |-> IdleThread]
    /\ abs = EmptyStore

NextConc ==
    \/ \E t \in Threads : Call(t)
    \/ \E t \in Threads, c \in Calls(variant) : Acquire(t, c, <<>>)
    \/ \E t \in Threads, c \in Calls(variant) : Load(t, c)
    \/ \E t \in Threads : Body(t)
    \/ \E t \in Threads : StoreSize(t)
    \/ \E t \in Threads : Release(t)
    \/ ClockMoves

SpecConc == InitConc /\ [][NextConc]_vars

\* ---- the same threads with all operations on one key, scheduled fairly: a thread
\* inside an operation goes on running, and m_lock is fair, i.e. a thread that
\* waits for it while it is released again and again gets it
LiveKeys == {CHOOSE key \in ConcKeys : \A other \in ConcKeys : key <= other}

LiveCaps == {0, MaxCap - 2}

LiveValues == {CHOOSE value \in Values : \A other \in Values : value <= other}

LiveCalls(v) ==
    {c \in Calls(v) :
        /\ c.key \in LiveKeys \cup {NoCall.key}
        /\ c.value \in LiveValues \cup {NoCall.value}
        /\ c.expected \in {Nothing} \cup {Some(value) : value \in LiveValues}
        /\ c.f = Identity}

Running(t) == Body(t) \/ StoreSize(t) \/ Release(t)

Locking(t) == \E c \in LiveCalls(variant) : Acquire(t, c, <<>>)

Loading(t) == \E c \in LiveCalls(variant) : Load(t, c)

FairThreads ==
    \A t \in Threads : WF_vars(Running(t)) /\ SF_vars(Locking(t))

InitLive ==
    /\ \/ \E max_size \in LiveCaps : Construct(max_size)
       \/ \E max_size \in LiveCaps : Construct_ttl(max_size, ConcLifetime)
    /\ caller = NoCaller
    /\ m_lock = 0
    /\ thr = [t \in Threads |-> IdleThread]
    /\ abs = EmptyStore

NextLive ==
    \/ \E t \in Threads : Call(t)
    \/ \E t \in Threads : Locking(t)
    \/ \E t \in Threads : Loading(t)
    \/ \E t \in Threads : Body(t)
    \/ \E t \in Threads : StoreSize(t)
    \/ \E t \in Threads : Release(t)
    \/ ClockMoves

SpecLive == InitLive /\ [][NextLive]_vars /\ FairThreads

\* ---- the test "kvstor thread-safe": every thread pushes the keys of a range of
\* its own, the value of a key being a function of the key
FillKeys(t) == [i \in 1..MaxFill |-> (t - 1) * MaxFill + i]

ValueFor(key) == (key % 2) + 1

FillCall(t) ==
    /\ thr[t].todo # <<>>
    /\ Call(t)

FillAcquire(t) ==
    /\ thr[t].todo # <<>>
    /\ Acquire(t, [NoCall EXCEPT !.name = "push", !.key = Head(thr[t].todo),
                                 !.value = ValueFor(Head(thr[t].todo))],
               Tail(thr[t].todo))

InitFill ==
    /\ \E max_size \in Caps : Construct(max_size)
    /\ caller = NoCaller
    /\ m_lock = 0
    /\ thr = [t \in Threads |-> [IdleThread EXCEPT !.todo = FillKeys(t)]]
    /\ abs = EmptyStore

NextFill ==
    \/ \E t \in Threads : FillCall(t)
    \/ \E t \in Threads : FillAcquire(t)
    \/ \E t \in Threads : Body(t)
    \/ \E t \in Threads : StoreSize(t)
    \/ \E t \in Threads : Release(t)

SpecFill == InitFill /\ [][NextFill]_vars

\* ---- threads that run a program of their own on a store that is already filled:
\* todo holds the call a thread makes next, out what its last call returned
RaceCaps  == 0..(MaxCap - 1)
RaceDumps == UNION {[1..n -> ConcKeys \X Values] : n \in 0..(MaxDump - 1)}

\* the store a constructor has built from dump_data, before any thread starts
Filled(dump_data, max_size) ==
    LET st == build_from_dump(EmptyStore, dump_data, max_size)
    IN  /\ variant = "cas"
        /\ m_max_size = max_size
        /\ m_lifetime = 0
        /\ clock = 0
        /\ m_data = Renumber(st).data
        /\ m_index = Renumber(st).index
        /\ m_size = st.size
        /\ written = KeysOf(Renumber(st).data)
        /\ pre = NoSnapshot
        /\ op = NoOp
        /\ m_lock = 0
        /\ abs = Renumber(st)

Enter(t) ==
    /\ thr[t].todo # <<>>
    /\ Call(t)

EnterLocked(t) ==
    /\ thr[t].todo # <<>>
    /\ Acquire(t, Head(thr[t].todo), Tail(thr[t].todo))

\* the call returns to the thread, which keeps what it returned; the guard
\* releases m_lock
Unlock(t) ==
    /\ thr[t].pc = "unlock"
    /\ m_lock' = IF m_lock = t THEN 0 ELSE m_lock
    /\ thr' = [thr EXCEPT ![t].pc = "returned"]
    /\ UNCHANGED <<m_data, m_index, m_size, clock, abs>>
    /\ UNCHANGED constant_in_calls

\* every thread calls compare_exchange once: the same key, the same expected, which
\* is what the store holds under the key, and a desired value of its own
RaceCall(key, desired, expected) ==
    [NoCall EXCEPT !.name = "compare_exchange", !.key = key, !.value = desired,
                   !.expected = expected]

InitRace ==
    /\ \E max_size \in RaceCaps, dump_data \in RaceDumps : Filled(dump_data, max_size)
    /\ caller = NoCaller
    /\ \E key \in ConcKeys :
          \E desired \in [Threads -> Values] :
              thr = [t \in Threads |->
                        [IdleThread EXCEPT
                             !.todo = <<RaceCall(key, desired[t], find_result(Cur, key))>>]]

NextRace ==
    \/ \E t \in Threads : Enter(t)
    \/ \E t \in Threads : EnterLocked(t)
    \/ \E t \in Threads : Body(t)
    \/ \E t \in Threads : StoreSize(t)
    \/ \E t \in Threads : Unlock(t)

SpecRace == InitRace /\ [][NextRace]_vars

\* ---- a caller reads a key with find and calls compare_exchange with what it has
\* read only after up to MaxBetween calls of others (push, erase) have returned;
\* caller.outs keeps, for each of these calls, its name and what the key held
\* after it
AbaFind ==
    /\ caller.pc = 1
    /\ \E key \in ConcKeys : find(key)

AbaTakeFind ==
    /\ caller.pc = 1
    /\ op.name = "find"
    /\ Consume([caller EXCEPT !.pc = 2, !.key = op.key, !.expected = op.result])

AbaPush ==
    /\ caller.pc = 2
    /\ Len(caller.outs) < MaxBetween
    /\ \E key \in ConcKeys, value \in Values : push(key, value)

AbaErase ==
    /\ caller.pc = 2
    /\ Len(caller.outs) < MaxBetween
    /\ \E key \in ConcKeys : erase(key)

AbaTakeOther ==
    /\ caller.pc = 2
    /\ op.name \in {"push", "erase"}
    /\ Consume([caller EXCEPT !.outs = Append(@, <<op.name, find_result(Cur, caller.key)>>)])

AbaExchange ==
    /\ caller.pc = 2
    /\ \E desired \in Values : compare_exchange(caller.key, desired, caller.expected)

AbaTakeExchange ==
    /\ caller.pc = 2
    /\ op.name = "compare_exchange"
    /\ Consume([caller EXCEPT !.pc = 3, !.oks = Append(@, op.ok), !.desired = op.value])

InitAba ==
    /\ \E max_size \in RaceCaps, dump_data \in RaceDumps : Filled(dump_data, max_size)
    /\ caller = [NoCaller EXCEPT !.pc = 1]
    /\ thr = [t \in Threads |-> IdleThread]

NextAba ==
    \/ AbaFind
    \/ AbaTakeFind
    \/ AbaPush
    \/ AbaErase
    \/ AbaTakeOther
    \/ AbaExchange
    \/ AbaTakeExchange

SpecAba == InitAba /\ [][NextAba]_vars

\* ---- one thread traverses the store (dump or map) while every other thread makes
\* one call that writes it, or reads its size
Traverser == 1

Traversals ==
    {[NoCall EXCEPT !.name = name] : name \in {"dump", "map_const"}}
    \cup {[NoCall EXCEPT !.name = "map", !.f = f] : f \in Visitors}

Writes ==
    {c \in Calls("cas") :
        c.name \in {"push", "erase", "clear", "compare_exchange", "size"}}

CallsOf(t) == IF t = Traverser THEN Traversals ELSE Writes

SnapAcquire(t) ==
    /\ thr[t].todo # <<>>
    /\ \E c \in CallsOf(t) : Acquire(t, c, Tail(thr[t].todo))

\* the thread enters a call that takes no lock
SnapLoad(t) ==
    /\ thr[t].pc = "idle"
    /\ thr[t].todo # <<>>
    /\ \E c \in CallsOf(t) :
          /\ ~takes_lock(variant, c.name)
          /\ thr' = [thr EXCEPT ![t] = [IdleThread EXCEPT !.pc = "body", !.call = c,
                                                          !.todo = Tail(thr[t].todo)]]
    /\ UNCHANGED <<m_data, m_index, m_size, clock, m_lock, abs>>
    /\ UNCHANGED constant_in_calls

\* the traversal returns and the thread keeps what it has seen
SnapReturn(t) ==
    /\ t = Traverser
    /\ Unlock(t)

\* another thread's call returns
SnapRelease(t) ==
    /\ t # Traverser
    /\ Release(t)

InitSnap ==
    /\ \E max_size \in RaceCaps, dump_data \in RaceDumps : Filled(dump_data, max_size)
    /\ caller = NoCaller
    /\ thr = [t \in Threads |-> [IdleThread EXCEPT !.todo = <<t>>]]

NextSnap ==
    \/ \E t \in Threads : Enter(t)
    \/ \E t \in Threads : SnapAcquire(t)
    \/ \E t \in Threads : SnapLoad(t)
    \/ \E t \in Threads : Body(t)
    \/ \E t \in Threads : StoreSize(t)
    \/ \E t \in Threads : SnapReturn(t)
    \/ \E t \in Threads : SnapRelease(t)

SpecSnap == InitSnap /\ [][NextSnap]_vars

\* ---- one thread calls map with a visitor that, on every item, calls an operation
\* of the same store (the call in todo); the other threads call what they like.
\* out.visited of the traversing thread keeps how each call of the visitor ended.
\* m_lock is a std::mutex: lock() by the thread that owns it is undefined
\* behaviour, and a build either blocks the thread for good or makes lock() throw
\* std::system_error (resource_deadlock_would_occur)
max_size_call == [NoCall EXCEPT !.name = "max_size"]

\* m_lock as a recursive mutex: the owner's lock() returns
locks_recursive(v, name) == FALSE

\* max_size() returns the const m_max_size, without the lock in both headers
locks(v, name) == name # "max_size" /\ takes_lock(v, name)

Inner == Head(thr[Traverser].todo)

Items == Len(thr[Traverser].out.visited)

NestedStep(next) ==
    /\ thr' = [thr EXCEPT ![Traverser] = next]
    /\ UNCHANGED <<m_data, m_index, m_size, clock, m_lock, abs>>
    /\ UNCHANGED constant_in_calls

Visiting ==
    /\ thr[Traverser].pc = "body"
    /\ Items < Len(m_data)

NestedEnter == Enter(Traverser)

\* map: const std::lock_guard guard{ m_lock }
NestedAcquire ==
    /\ thr[Traverser].todo # <<>>
    /\ Acquire(Traverser, [NoCall EXCEPT !.name = "map"], thr[Traverser].todo)

\* func(item.key, item.value) calls size(), empty() or max_size(): the call returns
VisitReturns ==
    /\ Visiting
    /\ ~locks(variant, Inner.name)
    /\ NestedStep([thr[Traverser] EXCEPT
                       !.out.visited = Append(@, "returned"),
                       !.lin.count = IF Inner.name = "max_size" THEN m_max_size
                                     ELSE Effect(Inner, Cur, m_max_size).out.count,
                       !.lin.ok = Effect([Inner EXCEPT !.name = "empty"], Cur, m_max_size).out.ok])

\* func calls an operation that begins with lock_guard guard{ m_lock }: lock()
\* never returns
VisitBlocks ==
    /\ Visiting
    /\ locks(variant, Inner.name)
    /\ NestedStep([thr[Traverser] EXCEPT !.pc = "blocked"])

\* lock() throws, func catches the exception and returns
VisitCatches ==
    /\ Visiting
    /\ locks(variant, Inner.name)
    /\ NestedStep([thr[Traverser] EXCEPT !.out.visited = Append(@, "caught")])

\* lock() throws and the exception leaves func and map; the guard of map is
\* destroyed on the way
VisitThrows ==
    /\ Visiting
    /\ locks(variant, Inner.name)
    /\ NestedStep([thr[Traverser] EXCEPT !.pc = "unlock",
                                         !.out.visited = Append(@, "thrown")])

\* the loop of map is through
VisitEnd ==
    /\ thr[Traverser].pc = "body"
    /\ Items = Len(m_data)
    /\ NestedStep([thr[Traverser] EXCEPT !.pc = "unlock", !.out.ok = TRUE])

NestedReturn == Unlock(Traverser)

Others == Threads \ {Traverser}

InnerCalls == LiveCalls("cas") \cup {max_size_call}

\* every other thread makes one call: a push, an erase or a size()
OtherCalls == {c \in LiveCalls("cas") : c.name \in {"push", "erase", "size"}}

OtherLocks(t) ==
    /\ thr[t].todo # <<>>
    /\ \E c \in OtherCalls : Acquire(t, c, Tail(thr[t].todo))

OtherLoads(t) ==
    /\ thr[t].pc = "idle"
    /\ thr[t].todo # <<>>
    /\ \E c \in OtherCalls :
          /\ ~takes_lock(variant, c.name)
          /\ thr' = [thr EXCEPT ![t] = [IdleThread EXCEPT !.pc = "body", !.call = c,
                                                          !.todo = Tail(thr[t].todo)]]
    /\ UNCHANGED <<m_data, m_index, m_size, clock, m_lock, abs>>
    /\ UNCHANGED constant_in_calls

NestedDumps == UNION {[1..n -> ConcKeys \X LiveValues] : n \in 0..(MaxDump - 1)}

InitNested ==
    /\ \E max_size \in RaceCaps, dump_data \in NestedDumps : Filled(dump_data, max_size)
    /\ caller = NoCaller
    /\ \E inner \in InnerCalls :
          thr = [t \in Threads |->
                    IF t = Traverser THEN [IdleThread EXCEPT !.todo = <<inner>>]
                    ELSE [IdleThread EXCEPT !.todo = <<t>>]]

NextNested ==
    \/ NestedEnter
    \/ NestedAcquire
    \/ VisitReturns
    \/ VisitBlocks
    \/ VisitCatches
    \/ VisitThrows
    \/ VisitEnd
    \/ NestedReturn
    \/ \E t \in Others : Enter(t)
    \/ \E t \in Others : OtherLocks(t)
    \/ \E t \in Others : OtherLoads(t)
    \/ \E t \in Others : Body(t)
    \/ \E t \in Others : StoreSize(t)
    \/ \E t \in Others : Release(t)

SpecNested == InitNested /\ [][NextNested]_vars

\* ---- every thread increments the value of one key once, optimistically: it
\* reads the value with find and calls compare_exchange(key, e + 1, e) until a
\* call returns true; a missing key counts as 0
Succ(e) == IF e = Nothing THEN 1 ELSE e[1] + 1

FindCall(key) == [NoCall EXCEPT !.name = "find", !.key = key]

\* e := find(k) has returned: the first compare_exchange(k, e + 1, e)
IncrTry(t) ==
    /\ thr[t].pc = "returned"
    /\ thr[t].call.name = "find"
    /\ thr' = [thr EXCEPT ![t] =
                 [IdleThread EXCEPT
                      !.todo = <<RaceCall(thr[t].call.key, Succ(thr[t].out.result),
                                          thr[t].out.result)>>]]
    /\ UNCHANGED <<m_data, m_index, m_size, clock, m_lock, abs>>
    /\ UNCHANGED constant_in_calls

\* compare_exchange has returned false: the next one, with the expected it refreshed
IncrRetry(t) ==
    /\ thr[t].pc = "returned"
    /\ thr[t].call.name = "compare_exchange"
    /\ ~thr[t].out.ok
    /\ thr' = [thr EXCEPT ![t] =
                 [IdleThread EXCEPT
                      !.todo = <<RaceCall(thr[t].call.key, Succ(thr[t].out.expected_out),
                                          thr[t].out.expected_out)>>]]
    /\ UNCHANGED <<m_data, m_index, m_size, clock, m_lock, abs>>
    /\ UNCHANGED constant_in_calls

\* compare_exchange has returned false: the thread reads the value again
IncrReread(t) ==
    /\ thr[t].pc = "returned"
    /\ thr[t].call.name = "compare_exchange"
    /\ ~thr[t].out.ok
    /\ thr' = [thr EXCEPT ![t] = [IdleThread EXCEPT !.todo = <<FindCall(thr[t].call.key)>>]]
    /\ UNCHANGED <<m_data, m_index, m_size, clock, m_lock, abs>>
    /\ UNCHANGED constant_in_calls

\* caller keeps the key and what the store held under it before the threads start
InitIncr ==
    /\ \E max_size \in RaceCaps, dump_data \in RaceDumps : Filled(dump_data, max_size)
    /\ \E key \in ConcKeys :
          /\ caller = [NoCaller EXCEPT !.key = key, !.expected = find_result(Cur, key)]
          /\ thr = [t \in Threads |-> [IdleThread EXCEPT !.todo = <<FindCall(key)>>]]

NextIncr ==
    \/ \E t \in Threads : Enter(t)
    \/ \E t \in Threads : EnterLocked(t)
    \/ \E t \in Threads : Body(t)
    \/ \E t \in Threads : StoreSize(t)
    \/ \E t \in Threads : Unlock(t)
    \/ \E t \in Threads : IncrTry(t)
    \/ \E t \in Threads : IncrRetry(t)
    \/ \E t \in Threads : IncrReread(t)

SpecIncr == InitIncr /\ [][NextIncr]_vars

\* ======================================================================
\* Properties
\* ======================================================================

IsCas == variant = "cas"
IsTtl == variant = "ttl"

\* the store the last operation began with
Pre == Store(pre.data, pre.index, pre.size)

\* the value the list holds for a key, looked for along the list itself
Lookup(data, key) ==
    IF \E i \in 1..Len(data) : data[i].key = key
    THEN Some(data[CHOOSE i \in 1..Len(data) : data[i].key = key].value)
    ELSE Nothing

\* the pairs of the list without the entries of one key
PairsWithout(data, key) == SelectSeq(PairsOf(data), LAMBDA p : p[1] # key)

\* the clock readings a call that follows may see
Later == clock..(MaxTime + MaxLife)

\* what size() returns when called at clock reading now
size_result(now) == IF IsCas THEN m_size ELSE Len(clear_outdated(Cur, now).data)

\* what find(key) returns when called at clock reading now
find_now(key, now) ==
    IF IsCas THEN find_result(Cur, key) ELSE find_result_ttl(Cur, key, now)

\* what first() returns
first_now == IF IsCas THEN first_result(Cur) ELSE first_result_ttl(Cur)

\* the sweep at the start of the last operation (ttl variant) found nothing expired
NothingExpired == IsTtl => clear_outdated(Pre, op.sweep_now) = Pre

\* size() == max_size when the last operation began
WasFull ==
    /\ Len(pre.data) = m_max_size
    /\ IsCas => pre.size = m_max_size

\* C1: in both variants every completed operation (restore-construction
\* included) leaves at most max_size entries in the list, and size() returns a
\* value in 0..max_size.
C1_SizeBounded ==
    /\ Len(m_data) <= m_max_size
    /\ \A now \in Later : size_result(now) \in 0..m_max_size
    /\ op.name = "size" => op.count \in 0..m_max_size

\* a push of a new key into a full store has completed
C1_Witness ==
    /\ IsCas
    /\ op.name = "push"
    /\ m_max_size >= 1
    /\ WasFull
    /\ ~Found(pre.index, op.key)
    /\ Len(m_data) = m_max_size

\* C2: push(k, v) with k absent and size() == max_size >= 1 removes exactly one
\* entry, the one whose last write is the oldest among the stored keys; every
\* other stored key keeps its value and its relative order.  (In the ttl variant
\* the case is the one in which the push's sweep finds nothing expired.)
C2_EvictsOldestWrite ==
    (/\ op.name = "push"
     /\ m_max_size >= 1
     /\ WasFull
     /\ ~Found(pre.index, op.key)
     /\ NothingExpired)
    => LET oldest == pre.written[Len(pre.written)]
       IN  /\ Len(pre.written) = m_max_size
           /\ ~Found(m_index, oldest)
           /\ DOMAIN m_index = (DOMAIN pre.index \ {oldest}) \cup {op.key}
           /\ PairsOf(m_data) = <<<<op.key, op.value>>>> \o PairsWithout(pre.data, oldest)

\* a push of a new key has evicted from a store of three entries
C2_Witness ==
    /\ IsCas
    /\ op.name = "push"
    /\ m_max_size = 3
    /\ WasFull
    /\ ~Found(pre.index, op.key)
    /\ Len(m_data) = 3
    /\ KeysOf(pre.data) # <<1, 2, 3>>

\* C3: push(k, v) with k present leaves size() unchanged, evicts no other key
\* even when the store is full, replaces k's value by v and moves k to the
\* front, so that first() returns v; the other entries keep their values and
\* relative order.  (In the ttl variant the case is the one in which the push's
\* sweep finds nothing expired.)
C3_PushExistingKey ==
    (/\ op.name = "push"
     /\ Found(pre.index, op.key)
     /\ NothingExpired)
    => /\ Len(m_data) = Len(pre.data)
       /\ IsCas => m_size = pre.size
       /\ DOMAIN m_index = DOMAIN pre.index
       /\ PairsOf(m_data) = <<<<op.key, op.value>>>> \o PairsWithout(pre.data, op.key)
       /\ first_now = Some(op.value)

\* a stored key that was not the newest, in a full store, has been pushed again
\* with another value
C3_Witness ==
    /\ IsCas
    /\ op.name = "push"
    /\ m_max_size = 3
    /\ WasFull
    /\ Found(pre.index, op.key)
    /\ pre.data[3].key = op.key
    /\ pre.data[3].value # op.value

\* C4: for max_size >= 1, right after push(k, v) returns, find(k) returns v,
\* first() returns v and size() >= 1; in the ttl variant find and size() do so
\* at every clock reading less than lifetime after the push's own.
C4_PushedIsFoundFirst ==
    (op.name = "push" /\ m_max_size >= 1)
    => /\ first_now = Some(op.value)
       /\ \A now \in Later :
              (IsTtl => now - op.now < m_lifetime)
              => /\ find_now(op.key, now) = Some(op.value)
                 /\ size_result(now) >= 1

\* a push into a full store has completed; the key pushed was not stored
C4_Witness ==
    /\ op.name = "push"
    /\ IsCas
    /\ m_max_size = 2
    /\ WasFull
    /\ ~Found(pre.index, op.key)

\* C5: with max_size = 0 every push and every successful compare_exchange
\* inserts and at once evicts its own entry: size() is 0, empty() is true, map
\* visits nothing, dump() is empty and find returns empty for every key.
C5_ZeroSizeStaysEmpty ==
    m_max_size = 0
    => /\ m_data = <<>>
       /\ DOMAIN m_index = {}
       /\ \A now \in Later : size_result(now) = 0
       /\ \A key \in Keys \cup {NeverKey}, now \in Later : find_now(key, now) = Nothing
       /\ op.name = "size" => op.count = 0
       /\ op.name = "empty" => op.ok
       /\ op.name = "find" => op.result = Nothing
       /\ op.name \in {"map", "map_const", "dump"} => op.visited = <<>>

\* a compare_exchange on a store of max_size 0 has succeeded
C5_Witness ==
    /\ m_max_size = 0
    /\ op.name = "compare_exchange"
    /\ op.ok

\* C6: find(k) right after erase(k) returns empty, whether or not k was stored;
\* find returns empty for a key that was never written.
C6_ErasedOrNeverWrittenNotFound ==
    /\ op.name = "erase" => \A now \in Later : find_now(op.key, now) = Nothing
    /\ \A now \in Later : find_now(NeverKey, now) = Nothing
    /\ (op.name = "find" /\ op.key = NeverKey) => op.result = Nothing

\* the newest entry of a store of several has been erased
C6_Witness ==
    /\ IsCas
    /\ op.name = "erase"
    /\ Len(pre.data) >= 2
    /\ pre.data[1].key = op.key

\* C7: find(k) changes nothing: list contents and order, index and size are
\* what they were before the call, for stored, missing and (ttl variant)
\* expired keys, so a key that is only read keeps its place in the order of
\* last writes.
C7_FindChangesNothing ==
    op.name = "find"
    => /\ m_data = pre.data
       /\ m_index = pre.index
       /\ m_size = pre.size
       /\ KeysOf(m_data) = pre.written

\* find has returned the value of the oldest of several entries
C7_Witness ==
    /\ IsCas
    /\ op.name = "find"
    /\ Len(pre.data) >= 2
    /\ pre.data[Len(pre.data)].key = op.key
    /\ op.result # Nothing

\* C8: map visits each stored entry exactly once, newest first: a is visited
\* before b iff a's last write came after b's.  (In the ttl variant the
\* traversal may stop early; what it visits is the newest part of that order.)
C8_MapNewestFirst ==
    op.name \in {"map", "map_const"}
    => /\ [i \in 1..Len(op.visited) |-> op.visited[i][1]]
              = SubSeq(pre.written, 1, Len(op.visited))
       /\ \A i \in 1..Len(op.visited) :
              Some(op.visited[i][2]) = Lookup(pre.data, op.visited[i][1])
       /\ IsCas => /\ Len(op.visited) = Len(pre.written)
                   /\ {op.visited[i][1] : i \in 1..Len(op.visited)} = DOMAIN pre.index

\* map has visited three entries of which the newest was not the last one to
\* enter the store
C8_Witness ==
    /\ IsCas
    /\ op.name = "map_const"
    /\ Len(op.visited) = 3
    /\ op.visited[1][1] < op.visited[2][1]
    /\ op.visited[3][1] > op.visited[2][1]

\* C9: compare_exchange(key, desired, expected) returns true iff key is absent
\* and expected is empty, or key is present and expected holds the stored
\* value; when it returns true expected is as it was.
C9_CompareExchangeResult ==
    op.name = "compare_exchange"
    => /\ op.ok <=> \/ Lookup(pre.data, op.key) = Nothing /\ op.expected = Nothing
                    \/ /\ Lookup(pre.data, op.key) # Nothing
                       /\ op.expected # Nothing
                       /\ op.expected = Lookup(pre.data, op.key)
       /\ op.ok => op.expected_out = op.expected

\* compare_exchange has failed on a missing key with a value expected
C9_Witness ==
    /\ op.name = "compare_exchange"
    /\ ~op.ok
    /\ op.expected # Nothing
    /\ Lookup(pre.data, op.key) = Nothing
    /\ pre.data # <<>>

\* C10: when compare_exchange returns false the store is as it was (entries,
\* values, order, size) and expected holds the key's current value, or is empty
\* when the key is absent.
C10_FailedCompareExchange ==
    (op.name = "compare_exchange" /\ ~op.ok)
    => /\ m_data = pre.data
       /\ m_index = pre.index
       /\ m_size = pre.size
       /\ op.expected_out = Lookup(m_data, op.key)

\* compare_exchange has failed on a missing key and cleared the value expected
C10_Witness ==
    /\ op.name = "compare_exchange"
    /\ ~op.ok
    /\ op.expected # Nothing
    /\ op.expected_out = Nothing
    /\ Len(m_data) >= 2

\* C11: on a store with max_size >= 1 in which a key has no entry,
\* compare_exchange(key, v, expected = empty) succeeds and leaves expected empty;
\* a second call with the same expected and a different desired value fails and
\* sets expected to v; a third call with expected = v and a new desired value
\* succeeds, and the key then holds that new value.
CasSeqOutcome ==
    /\ Len(caller.oks) >= 1 => caller.oks[1] /\ caller.outs[1] = Nothing
    /\ Len(caller.oks) >= 2 => ~caller.oks[2] /\ caller.outs[2] = Some(caller.v)
    /\ Len(caller.oks) >= 3 => caller.oks[3]
    /\ (caller.pc = 5 /\ op.name = "find") => op.result = Some(caller.desired)

C11_CompareExchangeSequence ==
    (IsCas /\ m_max_size >= 1) => CasSeqOutcome

\* C11 as stated, for a store of any max_size
C11_AnyMaxSize ==
    IsCas => CasSeqOutcome

C11_Witness ==
    /\ IsCas
    /\ m_max_size >= 1
    /\ caller.pc = 5
    /\ op.name = "find"
    /\ Len(caller.oks) = 3
    /\ m_size > 1
    /\ caller.desired # caller.v

\* C12: when every thread has pushed the keys of its own range, size() is
\* min(number of threads * keys per thread, max_size), and every key still present
\* maps to the value that was pushed for it.
AllFilled == \A t \in Threads : thr[t].pc = "idle" /\ thr[t].todo = <<>>

Min(a, b) == IF a < b THEN a ELSE b

Accessing(t) == thr[t].pc \in {"body", "store"}

LoadsSizeOnly(t) == variant = "cas" /\ thr[t].call.name \in {"size", "empty"}

C13_SequenceUnderLock ==
    \A t \in Threads :
        (Accessing(t) /\ ~LoadsSizeOnly(t)) =>
            /\ m_lock = t
            /\ \A u \in Threads \ {t} : Accessing(u) => LoadsSizeOnly(u) /\ thr[u].pc = "body"

\* C13 as stated: size and empty of both headers included
C13_EveryOperationUnderLock ==
    \A t \in Threads :
        Accessing(t) =>
            /\ m_lock = t
            /\ \A u \in Threads \ {t} : ~Accessing(u)

C13_Witness ==
    \E t \in Threads, u \in Threads :
        /\ thr[t].pc = "store"
        /\ thr[t].call.name = "erase"
        /\ m_lock = t
        /\ thr[u].pc = "lock"

\* C14: every call returns what the sequential store returns at one instant of the
\* call (for a call that assigns m_size the instant of that assignment, else the
\* instant of its statements), the store is the sequential store whenever the
\* lock is free, and size() never reports more than max_size.
C14_Linearizable ==
    /\ \A t \in Threads : thr[t].pc = "unlock" => thr[t].out = thr[t].lin
    /\ m_lock = 0 => Cur = abs
    /\ m_size = abs.size
    /\ \A t \in Threads :
           (thr[t].pc = "unlock" /\ thr[t].call.name = "size") =>
               thr[t].out.count <= m_max_size

C14_Witness ==
    \E t \in Threads, u \in Threads :
        /\ IsCas
        /\ thr[t].pc = "unlock"
        /\ thr[t].call.name = "size"
        /\ thr[t].out.count = m_max_size
        /\ m_max_size >= 1
        /\ thr[u].pc = "store"
        /\ thr[u].call.name = "push"
        /\ m_data # abs.data

\* C15: dump() returns the (key, value) pairs map would visit, in the same
\* newest-first order, as many as size() reports, and leaves the store as it
\* was; the dump of an empty store is empty.
C15_DumpIsTraversal ==
    op.name = "dump" =>
        /\ op.visited = Effect([NoCall EXCEPT !.name = "map_const"], Pre, m_max_size).out.visited
        /\ [i \in 1..Len(op.visited) |-> op.visited[i][1]] = pre.written
        /\ \A i \in 1..Len(op.visited) :
               Some(op.visited[i][2]) = Lookup(pre.data, op.visited[i][1])
        /\ Len(op.visited) = Effect([NoCall EXCEPT !.name = "size"], Pre, m_max_size).out.count
        /\ Cur = Pre
        /\ written = pre.written
        /\ pre.size = 0 => op.visited = <<>>

C15_Witness ==
    /\ op.name = "dump"
    /\ Len(op.visited) = 3
    /\ op.visited[1][1] > op.visited[2][1]
    /\ op.visited[2][1] < op.visited[3][1]
    /\ op.visited[1][2] # op.visited[2][2]

\* C16: a store rebuilt from the dump of a store, with a max_size of at least
\* that store's size, has the same map traversal as the dumped store, and its
\* own dump is the dump it was built from.
C16_DumpRestoreRoundTrip ==
    (op.name = "restore_dump" /\ m_max_size >= pre.size) =>
        /\ Effect([NoCall EXCEPT !.name = "map_const"], Cur, m_max_size).out.visited
               = Effect([NoCall EXCEPT !.name = "map_const"], Pre, m_max_size).out.visited
        /\ Effect([NoCall EXCEPT !.name = "dump"], Cur, m_max_size).out.visited
               = op.dump_data
        /\ m_size = pre.size
        /\ written = pre.written

C16_Witness ==
    /\ op.name = "restore_dump"
    /\ pre.size = 3
    /\ m_max_size = 3
    /\ pre.data[1].key > pre.data[2].key
    /\ pre.data[2].key < pre.data[3].key
    /\ pre.data[1].value # pre.data[3].value

\* C17: a store built from more than max_size pairs with distinct keys holds
\* max_size entries, and its traversal is the first max_size pairs in the order
\* given (the later, older pairs are dropped); with max_size = 0 it is empty.
DistinctKeys(dump_data) ==
    \A i \in 1..Len(dump_data), j \in 1..Len(dump_data) :
        i # j => dump_data[i][1] # dump_data[j][1]

C17_RestoreTruncates ==
    (op.name \in {"restore", "restore_dump"}
        /\ Len(op.dump_data) > m_max_size
        /\ DistinctKeys(op.dump_data)) =>
        /\ m_size = m_max_size
        /\ Effect([NoCall EXCEPT !.name = "map_const"], Cur, m_max_size).out.visited
               = SubSeq(op.dump_data, 1, m_max_size)
        /\ m_max_size = 0 => m_data = <<>> /\ DOMAIN m_index = {}

C17_Witness ==
    /\ op.name = "restore"
    /\ Len(op.dump_data) = 3
    /\ DistinctKeys(op.dump_data)
    /\ m_max_size = 2
    /\ op.dump_data[1][1] > op.dump_data[2][1]
    /\ m_size = 2

\* C18: with lifetime L, an entry pushed at clock reading t0 and not since pushed
\* again, erased or evicted is returned by find at every reading t with
\* t - t0 < L and reported empty at every reading t with t - t0 >= L.
\* The entry is stamped t0 + L by push; every stored entry is found exactly at
\* the readings before its stamp; and no step but a push or erase of its key, a
\* clear or an eviction takes an entry away before its stamp is reached.
StampedByPush ==
    (IsTtl /\ op.name = "push" /\ m_max_size >= 1) =>
        /\ m_data[1].key = op.key
        /\ m_data[1].end_time = op.now + m_lifetime
        /\ \A t \in Later :
               find_now(op.key, t) = IF t - op.now < m_lifetime THEN Some(op.value)
                                     ELSE Nothing

FoundBeforeStamp ==
    IsTtl =>
        \A i \in 1..Len(m_data) : \A t \in Later :
            find_now(m_data[i].key, t) = IF t < m_data[i].end_time
                                         THEN Some(m_data[i].value) ELSE Nothing

Evicts(item) ==
    /\ op'.name = "push"
    /\ item = m_data[Len(m_data)]
    /\ Len(m_data) >= m_max_size
    /\ ~Found(m_index, op'.key)

TakesAway(item) ==
    \/ op'.name = "clear"
    \/ op'.name \in {"push", "erase"} /\ op'.key = item.key
    \/ Evicts(item)

KeptUntilStamp ==
    IsTtl =>
        \A i \in 1..Len(m_data) :
            (m_data[i].end_time > clock' /\ ~TakesAway(m_data[i])) =>
                \E j \in 1..Len(m_data') :
                    /\ m_data'[j].key = m_data[i].key
                    /\ m_data'[j].end_time = m_data[i].end_time
                    /\ op'.name # "map" => m_data'[j].value = m_data[i].value

C18_FindWithinLifetime ==
    /\ [](StampedByPush /\ FoundBeforeStamp)
    /\ [][KeptUntilStamp]_vars

\* find has returned nothing for a stored entry at the very reading of its
\* expiry, one that is not the newest entry and was pushed before the clock moved
C18_Witness ==
    /\ IsTtl
    /\ op.name = "find"
    /\ op.result = Nothing
    /\ Found(m_index, op.key)
    /\ Deref(m_data, m_index[op.key]).end_time = op.now
    /\ m_lifetime >= 1
    /\ m_data[1].key # op.key
    /\ m_data[1].end_time > op.now

\* C19: last() of the time-aware header never returns the value of an entry whose
\* expiry time is at or before the clock reading of its final check, whatever the
\* clock does between its sweep and that check; it returns empty when the store
\* is empty or the tail is expired.
C19_LastNeverExpired ==
    (IsTtl /\ op.name = "last") =>
        /\ op.result # Nothing =>
               /\ m_data # <<>>
               /\ m_data[Len(m_data)].end_time > op.now
               /\ op.result = Some(m_data[Len(m_data)].value)
        /\ (m_data = <<>> \/ m_data[Len(m_data)].end_time <= op.now) => op.result = Nothing

\* C20: size() and empty() of the time-aware header first remove every expired
\* entry: size() returns the number of entries whose expiry time is strictly after
\* the clock reading of that sweep, empty() is true iff there is no such entry,
\* and no entry at or past its expiry is left in the store or counted.
Unexpired(data, now) == {i \in 1..Len(data) : data[i].end_time > now}

C20_SizeCountsUnexpired ==
    (IsTtl /\ op.name \in {"size", "empty"}) =>
        /\ m_data = SubSeq(pre.data, 1, Cardinality(Unexpired(pre.data, op.sweep_now)))
        /\ \A i \in 1..Len(m_data) : m_data[i].end_time > op.sweep_now
        /\ DOMAIN m_index = {m_data[i].key : i \in 1..Len(m_data)}
        /\ op.name = "size" => op.count = Cardinality(Unexpired(pre.data, op.sweep_now))
        /\ op.name = "empty" => (op.ok <=> Unexpired(pre.data, op.sweep_now) = {})

C20_Witness ==
    /\ IsTtl
    /\ op.name = "size"
    /\ Len(pre.data) = 2
    /\ op.count = 1
    /\ pre.data[2].end_time = op.sweep_now

\* C21: in the cas header last() returns empty iff the store is empty, else the
\* value of the entry with the oldest last write, and changes nothing; that entry
\* is the one the next capacity eviction removes: when a new key is pushed into
\* a full, non-empty store, the entry that disappears is the one whose value
\* last() returns on the store as it was.
OldestWritten(w) == w[Len(w)]

C21_LastIsNextEvicted ==
    /\ (IsCas /\ op.name = "last") =>
           /\ op.result = Nothing <=> (pre.size = 0 /\ pre.data = <<>>)
           /\ pre.data # <<>> =>
                  op.result = Lookup(pre.data, OldestWritten(pre.written))
           /\ Cur = Pre
           /\ written = pre.written
    /\ (IsCas /\ op.name = "push" /\ pre.size = m_max_size /\ pre.data # <<>>
            /\ ~Found(pre.index, op.key)) =>
           /\ DOMAIN pre.index \ DOMAIN m_index = {OldestWritten(pre.written)}
           /\ last_result(Pre) = Lookup(pre.data, OldestWritten(pre.written))
           /\ \A i \in 1..Len(m_data) : m_data[i].key # OldestWritten(pre.written)

\* last() has returned the value of an entry that is neither the newest nor the
\* one inserted first
C21_Witness ==
    /\ IsCas
    /\ op.name = "last"
    /\ Len(m_data) = 3
    /\ m_data[3].key > m_data[2].key
    /\ m_data[3].value # m_data[1].value
    /\ op.result = Some(m_data[3].value)

\* C22: the mutating map of the cas header replaces the value of every stored
\* entry by what the visitor makes of it, once, and changes nothing else: keys,
\* order of the list, index, size and write order stay, nothing is evicted, and
\* find, map and dump that follow see the new values.
Visited(data, f) == [i \in 1..Len(data) |-> <<data[i].key, f[data[i].value]>>]

C22_MapChangesValuesOnly ==
    (IsCas /\ op.name = "map") =>
        /\ Len(m_data) = Len(pre.data)
        /\ \A i \in 1..Len(m_data) :
               /\ m_data[i].key = pre.data[i].key
               /\ m_data[i].value = op.visitor[pre.data[i].value]
        /\ op.visited = PairsOf(pre.data)
        /\ m_index = pre.index
        /\ m_size = pre.size
        /\ written = pre.written
        /\ \A key \in DOMAIN pre.index :
               find_result(Cur, key) = Some(op.visitor[Lookup(pre.data, key)[1]])
        /\ Effect([NoCall EXCEPT !.name = "map_const"], Cur, m_max_size).out.visited
               = Visited(pre.data, op.visitor)
        /\ Effect([NoCall EXCEPT !.name = "dump"], Cur, m_max_size).out.visited
               = Visited(pre.data, op.visitor)

\* a visitor that exchanges the two values has run over three entries that did
\* not all hold the same value
C22_Witness ==
    /\ IsCas
    /\ op.name = "map"
    /\ op.visitor[1] = 2
    /\ op.visitor[2] = 1
    /\ Len(m_data) = 3
    /\ m_data[1].value # m_data[2].value
    /\ m_size = m_max_size

\* C23: after clear() size() is 0, empty() is true, first(), last() and find of
\* every key return empty and map visits nothing; max_size is what it was, and
\* the store is in the state of a freshly constructed one, so that every push
\* that follows does what it does on a fresh store.
AfterPush(st, key, value) ==
    IF IsCas
    THEN fix_size(apply_new(st, key, value, Found(st.index, key)), m_max_size)
    ELSE push_store_ttl(st, key, value, clock, clock, m_lifetime, m_max_size)

C23_ClearEmpties ==
    op.name = "clear" =>
        /\ \A now \in Later : size_result(now) = 0
        /\ IsCas => /\ Effect([NoCall EXCEPT !.name = "empty"], Cur, m_max_size).out.ok
                    /\ last_result(Cur) = Nothing
                    /\ Effect([NoCall EXCEPT !.name = "map_const"], Cur,
                              m_max_size).out.visited = <<>>
        /\ IsTtl => /\ \A now \in Later : last_result_ttl(clear_outdated(Cur, now), now) = Nothing
                    /\ \A now \in Later : visited_ttl(m_data, now) = <<>>
        /\ first_now = Nothing
        /\ \A key \in Keys \cup {NeverKey} : \A now \in Later : find_now(key, now) = Nothing
        /\ m_max_size = pre.max_size
        /\ Cur = EmptyStore
        /\ written = <<>>
        /\ \A key \in Keys, value \in Values :
               AfterPush(Cur, key, value) = AfterPush(EmptyStore, key, value)

C23_Witness ==
    /\ IsCas
    /\ op.name = "clear"
    /\ pre.size = 3
    /\ pre.size = m_max_size

\* C24: whenever the lock is free, index and list are in bijection: they have the
\* same number of elements, every key of the index refers to a list node that
\* holds that key, and no key occurs twice in the list; in the cas header m_size
\* equals both sizes.
Bijection ==
    /\ Cardinality(DOMAIN m_index) = Len(m_data)
    /\ \A key \in DOMAIN m_index :
           /\ \E i \in 1..Len(m_data) : m_data[i].node = m_index[key]
           /\ Deref(m_data, m_index[key]).key = key
    /\ \A i \in 1..Len(m_data), j \in 1..Len(m_data) :
           i # j => m_data[i].key # m_data[j].key /\ m_data[i].node # m_data[j].node
    /\ IsCas => m_size = Len(m_data)

C24_IndexListBijection ==
    m_lock = 0 => Bijection

\* an entry between two others has been erased
C24_Witness ==
    /\ m_lock = 0
    /\ op.name = "erase"
    /\ pre.size = 3
    /\ Len(m_data) = 2
    /\ pre.data[2].key = op.key

\* C25: in the time-aware header, the clock never going back, expiry times never
\* increase from the front of the list to its tail; so at every clock reading the
\* expired entries are a suffix of the list, and the sweep, which stops at the
\* first tail entry that has not expired, leaves no expired entry behind.
C25_ExpiryOrder ==
    IsTtl =>
        /\ \A i \in 1..Len(m_data), j \in 1..Len(m_data) :
               i < j => m_data[i].end_time >= m_data[j].end_time
        /\ \A now \in Later :
               /\ \A i \in 1..Len(m_data), j \in 1..Len(m_data) :
                      (i < j /\ m_data[i].end_time <= now) => m_data[j].end_time <= now
               /\ LET swept == clear_outdated(Cur, now)
                  IN  /\ \A i \in 1..Len(swept.data) : swept.data[i].end_time > now
                      /\ swept.data = SubSeq(m_data, 1, Len(swept.data))

\* two entries stamped at different times, the older one expired and not yet swept
C25_Witness ==
    /\ IsTtl
    /\ Len(m_data) = 2
    /\ m_data[1].end_time > clock
    /\ m_data[2].end_time <= clock
    /\ Len(clear_outdated(Cur, clock).data) = 1

\* C26: whenever compare_exchange(key, desired, expected) returns true, the store
\* it leaves is the store push(key, desired) produces from the same pre-state: the
\* key at the front with the desired value (also when the desired value is the
\* stored one), the other entries in their order, the tail evicted when the key was
\* absent and the store full.
Pushed(st, key, value, max_size) ==
    LET p == fix_size(apply_new(st, key, value, Found(st.index, key)), max_size)
    IN  [Renumber(p) EXCEPT !.size = p.size]

Exchanged == op.name = "compare_exchange" /\ op.ok

C26_ExchangeIsPush ==
    (IsCas /\ Exchanged) =>
        /\ Cur = Pushed(Pre, op.key, op.value, pre.max_size)
        /\ written = Stored(Touch(pre.written, op.key), m_index)
        /\ LET kept == <<<<op.key, op.value>>>> \o PairsWithout(pre.data, op.key)
           IN  PairsOf(m_data) = SubSeq(kept, 1, Min(Len(kept), pre.max_size))

\* a new key is exchanged into a full store: the tail is evicted
C26_Witness ==
    /\ IsCas /\ Exchanged
    /\ op.expected = Nothing
    /\ pre.size = pre.max_size
    /\ pre.size = 2
    /\ m_size = 2
    /\ ~Found(m_index, pre.data[2].key)

\* the desired value is the stored one, and the key still moves to the front
C26_WitnessSameValue ==
    /\ IsCas /\ Exchanged
    /\ op.expected = Some(op.value)
    /\ pre.size = 3
    /\ pre.data[3].key = op.key
    /\ m_data[1].key = op.key

\* C30: in the cas header erase(k) of an absent key leaves the store as it was;
\* erase(k) of a present key removes that entry and no other, size() goes down by
\* one, the remaining entries keep their values and their order, and so first()
\* and last() return what they returned before unless k was the front or the tail.
Erased == op.name = "erase"

C30_EraseFrame ==
    (IsCas /\ Erased) =>
        IF ~Found(pre.index, op.key)
        THEN Cur = Pre /\ written = pre.written
        ELSE /\ ~Found(m_index, op.key)
             /\ m_size = pre.size - 1
             /\ PairsOf(m_data) = PairsWithout(pre.data, op.key)
             /\ DOMAIN m_index = DOMAIN pre.index \ {op.key}
             /\ pre.data[1].key # op.key => first_result(Cur) = first_result(Pre)
             /\ pre.data[Len(pre.data)].key # op.key => last_result(Cur) = last_result(Pre)

\* a middle entry of three is erased: its neighbours stay front and tail
C30_Witness ==
    /\ IsCas /\ Erased
    /\ pre.size = 3
    /\ pre.data[2].key = op.key
    /\ m_size = 2
    /\ m_data[1].value # m_data[2].value
    /\ first_result(Cur) = first_result(Pre)
    /\ last_result(Cur) = last_result(Pre)

\* the erased key was never there
C30_WitnessAbsent ==
    /\ IsCas /\ Erased
    /\ pre.size = 2
    /\ ~Found(pre.index, op.key)
    /\ m_size = 2

\* C29: when compare_exchange(key, d, expected) has returned false and the caller
\* calls compare_exchange(key, d2, expected) at once, with the expected the first
\* call has refreshed, the second call returns true, whatever the store held and
\* whatever max_size is; it leaves expected alone and stores d2 under the key as a
\* push would.
Retried == caller.pc = 2 /\ op.name = "compare_exchange"

C29_RetrySucceeds ==
    /\ Retried =>
           /\ op.ok
           /\ op.expected = caller.expected
           /\ op.expected_out = op.expected
           /\ Cur = Pushed(Pre, caller.key, op.value, m_max_size)
    /\ caller.pc = 3 => caller.oks = <<FALSE, TRUE>>

\* the first call failed on a stored value it did not expect, in a full store
C29_Witness ==
    /\ caller.pc = 3
    /\ caller.oks = <<FALSE, TRUE>>
    /\ caller.expected # Nothing
    /\ caller.expected # Some(caller.desired)
    /\ m_size = m_max_size
    /\ m_size = 3
    /\ find_result(Cur, caller.key) = Some(caller.desired)

\* the first call expected a value for a key that is not there, max_size = 0
C29_WitnessNoRoom ==
    /\ caller.pc = 3
    /\ caller.oks = <<FALSE, TRUE>>
    /\ caller.expected = Nothing
    /\ m_max_size = 0

\* C27: max_size >= 1, every thread calls compare_exchange once on the same key with
\* the same expected, which matches what the store holds, and with desired values
\* other than the stored one, and nothing else runs: when all calls have returned,
\* exactly one has returned true, and every other has returned false with its
\* expected set to the desired value of the one that won.
Raced == \A t \in Threads : thr[t].pc = "returned"

DesiredDiffer ==
    \A t \in Threads :
        thr[t].call.expected # Nothing => thr[t].call.value # thr[t].call.expected[1]

Winners == {t \in Threads : thr[t].out.ok}

OneWinner ==
    /\ Cardinality(Winners) = 1
    /\ \A w \in Winners, t \in Threads \ Winners :
           /\ ~thr[t].out.ok
           /\ thr[t].out.expected_out = Some(thr[w].call.value)
    /\ \A w \in Winners :
           /\ thr[w].out.expected_out = thr[w].call.expected
           /\ find_result(Cur, thr[w].call.key) = Some(thr[w].call.value)

C27_OneWinner ==
    (Raced /\ m_max_size >= 1 /\ DesiredDiffer) => OneWinner

\* two desired values that differ from each other and from the stored value are
\* not to be had with two values; the key is absent here, the desired values differ
C27_Witness ==
    /\ Raced
    /\ m_max_size >= 1
    /\ DesiredDiffer
    /\ \E w \in Winners, t \in Threads \ Winners :
           /\ thr[t].call.value # thr[w].call.value
           /\ thr[t].out.expected_out = Some(thr[w].call.value)
    /\ m_size = 2

\* the key holds a value, both threads expect it and want the other value
C27_WitnessStored ==
    /\ Raced
    /\ m_max_size >= 1
    /\ DesiredDiffer
    /\ \E t \in Threads : thr[t].call.expected # Nothing
    /\ Cardinality(Winners) = 1

\* C28: max_size >= 1, every thread increments the value of the same key once by
\* find and compare_exchange(k, e + 1, e) repeated until it returns true, and
\* nothing else runs: the stored value is the value at the start plus the number
\* of compare_exchange calls that have returned true, so plus the number of threads
\* when all have finished; and a compare_exchange fails only when another thread's
\* compare_exchange with the same expected has succeeded, so of the threads that
\* contend with one expected exactly one succeeds.
Counted(e) == IF e = Nothing THEN 0 ELSE e[1]

Exchanging(t) == thr[t].call.name = "compare_exchange" /\ thr[t].pc \in {"unlock", "returned"}

Incremented == {t \in Threads : Exchanging(t) /\ thr[t].out.ok}

Outrun == {t \in Threads : Exchanging(t) /\ ~thr[t].out.ok}

AllIncremented == \A t \in Threads : thr[t].pc = "returned" /\ t \in Incremented

C28_NoLostUpdate ==
    m_max_size >= 1 =>
        /\ m_lock = 0 =>
               Counted(find_result(Cur, caller.key))
                   = Counted(caller.expected) + Cardinality(Incremented)
        /\ AllIncremented =>
               find_result(Cur, caller.key)
                   = Some(Counted(caller.expected) + Cardinality(Threads))
        /\ \A t \in Outrun :
               /\ \E w \in Incremented : thr[w].call.expected = thr[t].call.expected
               /\ Counted(thr[t].out.expected_out) > Counted(thr[t].call.expected)
        /\ \A w \in Incremented, t \in Incremented :
               w # t => thr[w].call.expected # thr[t].call.expected

\* all threads have read the same value before any exchanged: one has won with
\* that expected, the last one to finish has lost with it and retried
C28_Witness ==
    /\ m_max_size >= 1
    /\ AllIncremented
    /\ caller.expected # Nothing
    /\ m_size = m_max_size
    /\ \E t \in Threads :
           /\ thr[t].call.expected = Some(Counted(caller.expected) + Cardinality(Threads) - 1)
           /\ find_result(Cur, caller.key) = Some(thr[t].call.value)

\* a thread has lost against the thread that read the same value
C28_WitnessOutrun ==
    /\ m_max_size >= 1
    /\ \E t \in Outrun : thr[t].call.expected = caller.expected

\* C31: map of the time-aware header passes to the visitor, newest first, exactly
\* the entries find reports present at the traversal's clock reading: it stops at
\* the first entry whose expiry time is at or before that reading, passes no such
\* entry to the visitor, and every remaining lifetime it reports is positive.
Traversed == op.name \in {"map", "map_const"}

FoundAt(data, now) ==
    SelectSeq([i \in 1..Len(data) |-> <<data[i].key, data[i].value, data[i].end_time - now>>],
              LAMBDA item : item[3] > 0)

C31_MapVisitsFound ==
    (IsTtl /\ Traversed) =>
        /\ op.visited = FoundAt(pre.data, op.now)
        /\ \A i \in 1..Len(op.visited) :
               /\ op.visited[i][3] > 0
               /\ find_result_ttl(Pre, op.visited[i][1], op.now) = Some(op.visited[i][2])

\* C32: push of the time-aware header on a key the store holds gives the key the
\* expiry time (clock reading of this push) + lifetime: whenever it was first
\* inserted, find returns the new value at exactly the readings before that time;
\* and a stored entry of the key that had expired at the reading of the push's
\* sweep is removed by the sweep, the key then being inserted as a new one.
Repushed == IsTtl /\ op.name = "push" /\ Found(pre.index, op.key)

SweptOf(key) == ~Found(clear_outdated(Pre, op.sweep_now).index, key)

C32_PushRestamps ==
    Repushed =>
        /\ m_data[1].key = op.key
        /\ m_data[1].value = op.value
        /\ m_data[1].end_time = op.now + m_lifetime
        /\ Cardinality({i \in 1..Len(m_data) : m_data[i].key = op.key}) = 1
        /\ \A now \in op.now..(MaxTime + MaxLife) :
               find_result_ttl(Cur, op.key, now)
                   = IF now - op.now < m_lifetime THEN Some(op.value) ELSE Nothing
        /\ Deref(pre.data, pre.index[op.key]).end_time <= op.sweep_now <=> SweptOf(op.key)
        /\ SweptOf(op.key) =>
               PairsOf(m_data) = SubSeq(<<<<op.key, op.value>>>>
                                            \o PairsOf(clear_outdated(Pre, op.sweep_now).data),
                                        1, Len(m_data))

\* the key was stored behind a newer one, not expired, and gets a later stamp
C32_Witness ==
    /\ Repushed
    /\ ~SweptOf(op.key)
    /\ Len(pre.data) = 2
    /\ pre.data[2].key = op.key
    /\ pre.data[2].end_time < m_data[1].end_time
    /\ pre.data[2].end_time > op.now
    /\ pre.data[2].value # op.value
    /\ Len(m_data) = 2

\* the key was stored and had expired: the sweep removes it, push inserts it anew
C32_WitnessExpired ==
    /\ Repushed
    /\ SweptOf(op.key)
    /\ m_lifetime >= 1
    /\ Len(pre.data) = 2
    /\ Len(m_data) = 2

\* C33: push of the time-aware header removes the expired entries before it places
\* the new one: behind the new entry no entry is left whose expiry time is at or
\* before the reading of the sweep; an entry not expired at that reading goes only
\* when the store held max_size such entries under other keys, and then one goes
\* and no expired entry stays.
Pushed_ttl == IsTtl /\ op.name = "push"

Gone == {i \in 1..Len(pre.data) : pre.data[i].key # op.key /\ ~Found(m_index, pre.data[i].key)}

UnexpiredOthers ==
    {i \in 1..Len(pre.data) : pre.data[i].key # op.key /\ pre.data[i].end_time > op.sweep_now}

C33_SweepBeforeEviction ==
    Pushed_ttl =>
        /\ \A i \in 2..Len(m_data) : m_data[i].end_time > op.sweep_now
        /\ \A i \in 1..Len(pre.data) :
               (pre.data[i].key # op.key /\ pre.data[i].end_time <= op.sweep_now) => i \in Gone
        /\ Gone \cap UnexpiredOthers # {} =>
               /\ Cardinality(UnexpiredOthers) = m_max_size
               /\ Gone \cap UnexpiredOthers = {Len(clear_outdated(Pre, op.sweep_now).data)}
               /\ \A i \in 1..Len(m_data) : m_data[i].end_time > op.sweep_now
        /\ (Cardinality(UnexpiredOthers) < m_max_size) => Gone \cap UnexpiredOthers = {}

\* a full store of unexpired entries: the push of a new key evicts the tail
C33_Witness ==
    /\ Pushed_ttl
    /\ m_max_size = 2
    /\ Cardinality(UnexpiredOthers) = 2
    /\ Gone = {2}
    /\ Len(m_data) = 2

\* a full store whose tail has expired: the sweep makes room, nothing is evicted
C33_WitnessRoom ==
    /\ Pushed_ttl
    /\ m_max_size = 2
    /\ Len(pre.data) = 2
    /\ Cardinality(UnexpiredOthers) = 1
    /\ Gone = {2}
    /\ Len(m_data) = 2

\* C36: first() of the time-aware header neither sweeps nor checks an expiry time:
\* it leaves the store as it is and returns the value of the front entry whenever
\* the list is not empty; so first() can return a value while find on the key of
\* that entry, called next, returns empty, and when it does the size() called
\* after it returns 0.
C36_FirstUnchecked ==
    /\ (IsTtl /\ op.name = "first") =>
           /\ Cur = Pre
           /\ op.result = IF pre.data = <<>> THEN Nothing ELSE Some(pre.data[1].value)
    /\ (caller.pc = 3 /\ caller.outs = <<Nothing>>) => caller.v = 0

\* first() has returned a value, find on the front entry's key empty, size() 0
C36_Witness ==
    /\ IsTtl
    /\ caller.pc = 3
    /\ caller.expected # Nothing
    /\ caller.outs = <<Nothing>>
    /\ caller.v = 0
    /\ m_lifetime >= 1

\* C34: a dump() or map running while other threads call push, erase, clear and
\* compare_exchange sees the list as it is at one instant: what it has visited has
\* no key twice and at most max_size pairs, and is the content of the sequential
\* store at an instant of the traversal, the sequential store being the result of
\* the other threads' calls taken one after the other in the order of the instants
\* at which they took effect.
Seen == thr[Traverser].out.visited

Traversing == thr[Traverser].pc \in {"unlock", "returned"}

C34_TraversalIsSnapshot ==
    Traversing =>
        /\ Seen = thr[Traverser].lin.visited
        /\ Len(Seen) <= m_max_size
        /\ \A i \in 1..Len(Seen), j \in 1..Len(Seen) : i # j => Seen[i][1] # Seen[j][1]
        /\ thr[Traverser].pc = "unlock" =>
               /\ m_lock = Traverser
               /\ m_data = abs.data
               /\ PairsOf(m_data) =
                      [i \in 1..Len(Seen) |-> <<Seen[i][1], thr[Traverser].call.f[Seen[i][2]]>>]

\* a dump of two entries returns while another thread is blocked on the lock
C34_Witness ==
    /\ thr[Traverser].pc = "unlock"
    /\ thr[Traverser].call.name = "dump"
    /\ Len(Seen) = 2
    /\ \E t \in Threads \ {Traverser} : thr[t].pc = "lock"

\* the dump has returned and a write that followed it has changed the store
C34_WitnessThenWrite ==
    /\ thr[Traverser].pc = "returned"
    /\ thr[Traverser].call.name = "dump"
    /\ Len(Seen) = 2
    /\ Seen # PairsOf(m_data)

\* C37: compare_exchange compares values and nothing else: a call with the expected
\* a find has returned earlier returns true exactly when the key holds that value
\* (or is absent, for an empty expected) at the call, whatever others have done
\* to the key in between; so it returns true after the key went to another value
\* and back, after it was erased or evicted and pushed again with the old value,
\* and, with expected empty, after it was inserted and erased or evicted again.
Late == caller.pc = 2 /\ op.name = "compare_exchange"

Was(name, held) == \E i \in 1..Len(caller.outs) : caller.outs[i] = <<name, held>>

C37_ValueEqualityOnly ==
    /\ Late =>
           /\ op.ok <=> find_result(Pre, caller.key) = caller.expected
           /\ op.ok => Cur = Pushed(Pre, caller.key, op.value, m_max_size)
           /\ (caller.outs # <<>>
                  /\ caller.outs[Len(caller.outs)][2] = caller.expected) => op.ok
    /\ caller.pc = 3 =>
           (caller.oks = <<TRUE>> <=>
               (caller.outs = <<>> \/ caller.outs[Len(caller.outs)][2] = caller.expected))

\* A, then B, then A again: the exchange expecting A succeeds
C37_Witness ==
    /\ caller.pc = 3
    /\ caller.oks = <<TRUE>>
    /\ caller.expected # Nothing
    /\ Len(caller.outs) = 2
    /\ caller.outs[1][1] = "push"
    /\ caller.outs[1][2] # Nothing
    /\ caller.outs[1][2] # caller.expected
    /\ caller.outs[2] = <<"push", caller.expected>>

\* A erased and pushed again
C37_WitnessErased ==
    /\ caller.pc = 3
    /\ caller.oks = <<TRUE>>
    /\ caller.expected # Nothing
    /\ caller.outs = <<<<"erase", Nothing>>, <<"push", caller.expected>>>>

\* A evicted by the push of another key and pushed again
C37_WitnessEvicted ==
    /\ caller.pc = 3
    /\ caller.oks = <<TRUE>>
    /\ caller.expected # Nothing
    /\ caller.outs = <<<<"push", Nothing>>, <<"push", caller.expected>>>>

\* expected empty: the key inserted and then erased, or evicted, in between
C37_WitnessEmpty ==
    /\ caller.pc = 3
    /\ caller.oks = <<TRUE>>
    /\ caller.expected = Nothing
    /\ Len(caller.outs) = 2
    /\ caller.outs[1][2] # Nothing
    /\ caller.outs[2][2] = Nothing

C37_WitnessEmptyEvicted ==
    /\ C37_WitnessEmpty
    /\ caller.outs[2][1] = "push"

\* C35: with all threads calling any public operations, visitors that return and
\* call nothing of the store, there is no deadlock: whenever a thread is inside a
\* call, a thread inside a call can take a step, and the lock is held only by a
\* thread that is running; with a fair lock every call that was invoked returns;
\* and the sweep loop of clear_outdated ends after as many rounds as it removes
\* entries, at most all there are.
RECURSIVE sweep_rounds(_, _)
sweep_rounds(st, now) ==
    IF st.data = <<>> THEN 0
    ELSE IF st.data[Len(st.data)].end_time > now THEN 0
    ELSE 1 + sweep_rounds([st EXCEPT !.data = PopBack(st.data)], now)

InCall(t) == thr[t].pc # "idle"

NoDeadlock ==
    /\ (\E t \in Threads : InCall(t)) =>
           \E t \in Threads : ENABLED Running(t) \/ (InCall(t) /\ ENABLED Locking(t))
    /\ m_lock # 0 => thr[m_lock].pc \in {"body", "store", "unlock"}
    /\ \A t \in Threads :
           (thr[t].pc \in {"body", "store", "unlock"} /\ takes_lock(variant, thr[t].call.name))
               => m_lock = t

SweepEnds ==
    IsTtl =>
        \A now \in Later :
            /\ sweep_rounds(Cur, now) <= Len(m_data)
            /\ sweep_rounds(Cur, now) = Len(m_data) - Len(clear_outdated(Cur, now).data)

C35_EveryCallReturns ==
    /\ [](NoDeadlock /\ SweepEnds)
    /\ \A t \in Threads : InCall(t) ~> ~InCall(t)

\* a thread waits for the lock while another thread, inside push, holds it
C35_Witness ==
    \E t \in Threads, u \in Threads :
        /\ thr[t].pc = "lock"
        /\ thr[u].pc = "store"
        /\ thr[u].call.name = "push"
        /\ m_lock = u

\* the sweep of a call of the time-aware header removes an entry
C35_WitnessSweep ==
    /\ IsTtl
    /\ sweep_rounds(Cur, clock) = 1
    /\ \E t \in Threads : thr[t].pc = "lock"

\* C38: a visitor of map that calls push, compare_exchange, find, first, last,
\* erase, clear, map or dump of the same store never gets that call to run: the
\* thread owns m_lock, and lock() either blocks it for good, m_lock staying held
\* and every locking call of the other threads waiting, or throws, so that the
\* visitor ends by the exception or after catching it; in the cas header size(),
\* empty() and max_size() take no lock, return to the visitor, and return to the
\* other threads while the traversal is in progress.
LockFree == {"size", "empty", "max_size"}

Ended(how) == \E i \in 1..Items : thr[Traverser].out.visited[i] = how

InTraversal == thr[Traverser].pc \in {"body", "blocked"}

NestedOutcome ==
    /\ Inner.name \notin LockFree =>
           /\ ~Ended("returned")
           /\ thr[Traverser].lin = NoOut
           /\ thr[Traverser].out.ok => ~Ended("thrown")
           /\ Ended("thrown") =>
                  /\ thr[Traverser].pc \in {"unlock", "returned"}
                  /\ thr[Traverser].out.visited[Items] = "thrown"
    /\ Inner.name \in LockFree =>
           /\ thr[Traverser].pc # "blocked"
           /\ ~Ended("caught") /\ ~Ended("thrown")
           /\ (thr[Traverser].pc = "body" /\ Items > 0) =>
                  /\ Inner.name = "size" => thr[Traverser].lin.count = Len(m_data)
                  /\ Inner.name = "max_size" => thr[Traverser].lin.count = m_max_size
                  /\ Inner.name = "empty" => thr[Traverser].lin.ok = (m_data = <<>>)
    /\ InTraversal =>
           /\ m_lock = Traverser
           /\ \A t \in Others :
                  /\ thr[t].pc \in {"body", "store", "unlock"} =>
                         thr[t].call.name \in LockFree
                  /\ (thr[t].pc = "idle" /\ thr[t].todo # <<>>) => ENABLED OtherLoads(t)
                  /\ thr[t].pc = "lock" => ~ENABLED OtherLocks(t)

BlockedForGood ==
    thr[Traverser].pc = "blocked" =>
        /\ thr'[Traverser] = thr[Traverser]
        /\ m_lock' = Traverser
        /\ Cur' = Cur

C38_WitnessLockFree ==
    /\ thr[Traverser].pc = "returned"
    /\ Inner.name = "size"
    /\ Items = 2
    /\ thr[Traverser].lin.count = 2

====
